---- MODULE Spec2Model ----
(***************************************************************************)
(* A model of the block-file ingestion code of bitcoin-postgres-parser:    *)
(* the three binary readers (utils.rs, file_reader.rs,                     *)
(* main_concurrency.rs), the hasher/sizer (block_processor.rs, utils.rs),  *)
(* the reader stage (processing.rs), the per-file import loop              *)
(* (main_concurrency.rs) and the bulk loader (database.rs).                *)
(*                                                                         *)
(* Numbers wider than 31 bits are kept as little-endian sequences of       *)
(* 16-bit limbs, so that u32/u64/i64 values keep their width.              *)
(* Hex strings are sequences of hex digits (0..15).                        *)
(***************************************************************************)
EXTENDS Integers, Sequences, FiniteSets, TLC

\* ------------------------------------------------------------------------
\* Bounds of the model
\* ------------------------------------------------------------------------

\* records per block file
MaxRecords == 2

\* ------------------------------------------------------------------------
\* Sequences
\* ------------------------------------------------------------------------

\* a function over 1..n as an explicit tuple
Tup(f, n) == SubSeq(f, 1, n)

Rev(s) == Tup([i \in 1..Len(s) |-> s[Len(s) + 1 - i]], Len(s))

RECURSIVE Concat(_)
Concat(ss) == IF ss = <<>> THEN <<>> ELSE Head(ss) \o Concat(Tail(ss))

RECURSIVE SumSeq(_)
SumSeq(s) == IF s = <<>> THEN 0 ELSE Head(s) + SumSeq(Tail(s))

Zeros(n) == Tup([i \in 1..n |-> 0], n)

\* ------------------------------------------------------------------------
\* Results of a read: Ok(value, new position), Err (an io::Error returned
\* through `?`), Panic (the thread unwinds).  Positions are byte offsets.
\* ------------------------------------------------------------------------

Ok(v, p) == [st |-> "Ok", val |-> v, pos |-> p]
Err == [st |-> "Err", val |-> <<>>, pos |-> 0]
Panic == [st |-> "Panic", val |-> <<>>, pos |-> 0]

\* `F(..)?` followed by a conversion of the value read
Map(r, Conv(_)) == IF r.st # "Ok" THEN r ELSE Ok(Conv(r.val), r.pos)

\* Read::read_exact on the buffered file: n bytes or UnexpectedEof
read_exact(d, p, n) ==
    IF p + n <= Len(d) THEN Ok(SubSeq(d, p + 1, p + n), p + n) ELSE Err

\* from_le_bytes of one, two, four and eight bytes; a u32 is two 16-bit
\* limbs, a u64 (or the bit pattern of an i64) four, low limb first; an i32
\* is a signed integer
LeU8(b) == b[1]
LeU16(b) == b[1] + 256 * b[2]
LeU32(b) == <<b[1] + 256 * b[2], b[3] + 256 * b[4]>>
LeU64(b) == <<b[1] + 256 * b[2], b[3] + 256 * b[4],
              b[5] + 256 * b[6], b[7] + 256 * b[8]>>
LeI32(b) == b[1] + 256 * b[2] + 65536 * b[3]
            + 16777216 * (IF b[4] >= 128 THEN b[4] - 256 ELSE b[4])

\* byteorder::ReadBytesExt, little endian
read_u8(d, p) == Map(read_exact(d, p, 1), LeU8)
read_u16(d, p) == Map(read_exact(d, p, 2), LeU16)
read_u32(d, p) == Map(read_exact(d, p, 4), LeU32)
read_u64(d, p) == Map(read_exact(d, p, 8), LeU64)
read_i64(d, p) == read_u64(d, p)
read_i32(d, p) == Map(read_exact(d, p, 4), LeI32)

\* a function that reads field after field: its position and the values
\* bound so far
Start(p) == [st |-> "Ok", pos |-> p, f |-> <<>>]

Put(s, name, r) ==
    IF r.st # "Ok" THEN r
    ELSE [st |-> "Ok", pos |-> r.pos, f |-> (name :> r.val) @@ s.f]

\* `let name = F(reader)?;`  an Err or a panic of F ends the function
Bind(s, name, v, d, F(_, _, _)) ==
    IF s.st # "Ok" THEN s ELSE Put(s, name, F(v, d, s))

\* ------------------------------------------------------------------------
\* Integer casts and to_le_bytes
\* ------------------------------------------------------------------------

\* u32 as i64 / u32 as u64: zero extension
U32AsI64(x) == <<x[1], x[2], 0, 0>>
U16AsU64(x) == <<x, 0, 0, 0>>
U8AsU64(x) == <<x, 0, 0, 0>>

\* i64 as u32: truncation to the low 32 bits
I64AsU32(x) == <<x[1], x[2]>>

\* u32 as i32 and i32 as u32: reinterpretation of the 32 bits
U32AsI32(x) ==
    x[1] + 65536 * (IF x[2] >= 32768 THEN x[2] - 65536 ELSE x[2])
I32AsU32(v) == <<v % 65536, (v \div 65536) % 65536>>

LimbsToLe(x) == Concat([i \in 1..Len(x) |-> <<x[i] % 256, x[i] \div 256>>])

U32ToLeBytes(x) == LimbsToLe(x)
I64ToLeBytes(x) == LimbsToLe(x)
I32ToLeBytes(v) == LimbsToLe(I32AsU32(v))

\* a u64 of at least 2^20: larger than every length the model's files hold
\* and larger than the 1_000_000 caps
U64Huge(x) == x[2] >= 16 \/ x[3] # 0 \/ x[4] # 0

\* the value of a u64 below 2^20
U64Small(x) == x[1] + 65536 * x[2]

\* ------------------------------------------------------------------------
\* Hex strings
\* ------------------------------------------------------------------------

\* hex::encode: two hex digits per byte, high digit first
encode(bytes) ==
    Tup([k \in 1..(2 * Len(bytes)) |->
            IF k % 2 = 1 THEN bytes[(k + 1) \div 2] \div 16 ELSE bytes[k \div 2] % 16],
        2 * Len(bytes))

\* hex::decode(..).unwrap() of an even-length digit string
hex_decode(h) ==
    Tup([i \in 1..(Len(h) \div 2) |-> 16 * h[2 * i - 1] + h[2 * i]], Len(h) \div 2)

RECURSIVE StripZeros(_)
StripZeros(h) ==
    IF Len(h) > 1 /\ Head(h) = 0 THEN StripZeros(Tail(h)) ELSE h

\* format!("{:x}", u32): the hex digits of the number, no leading zeros
format_x(x) ==
    StripZeros(<<x[2] \div 4096, (x[2] \div 256) % 16, (x[2] \div 16) % 16, x[2] % 16,
                 x[1] \div 4096, (x[1] \div 256) % 16, (x[1] \div 16) % 16, x[1] % 16>>)

\* u32::from_str_radix(s, 16).unwrap() of one to eight hex digits
from_str_radix(h) ==
    LET g == Zeros(8 - Len(h)) \o h IN
    <<4096 * g[5] + 256 * g[6] + 16 * g[7] + g[8],
      4096 * g[1] + 256 * g[2] + 16 * g[3] + g[4]>>

\* ------------------------------------------------------------------------
\* SHA-256 (sha2 crate), abstracted: a fixed, deterministic, order-sensitive
\* function from byte strings to 32 bytes.
\* ------------------------------------------------------------------------

\* the sum of i * (bytes[i] + 1) over lo..hi, by halves
RECURSIVE WeightedSum(_, _, _)
WeightedSum(bytes, lo, hi) ==
    IF lo > hi THEN 0
    ELSE IF lo = hi THEN (lo * (bytes[lo] + 1)) % 65521
    ELSE LET mid == (lo + hi) \div 2 IN
         (WeightedSum(bytes, lo, mid) + WeightedSum(bytes, mid + 1, hi)) % 65521

Sha256(bytes) ==
    LET w == WeightedSum(bytes, 1, Len(bytes)) IN
    Tup([k \in 1..32 |->
            ((w % 256) * k + (w \div 256) * (k * k + 1) + 7 * Len(bytes) + k) % 256], 32)

\* ------------------------------------------------------------------------
\* Varints
\* ------------------------------------------------------------------------

\* utils.rs read_var_int (file_reader.rs:231-241 and
\* main_concurrency.rs:270-280 are the same code)
U32AsU64(x) == <<x[1], x[2], 0, 0>>

var_int_of(d, first) ==
    IF first.st # "Ok" THEN first
    ELSE CASE first.val = 253 -> Map(read_u16(d, first.pos), U16AsU64)
           [] first.val = 254 -> Map(read_u32(d, first.pos), U32AsU64)
           [] first.val = 255 -> read_u64(d, first.pos)
           [] OTHER -> Ok(U8AsU64(first.val), first.pos)

read_var_int(d, p) == var_int_of(d, read_u8(d, p))

\* `x.len() as u64`
UsizeAsU64(n) == <<n % 65536, n \div 65536, 0, 0>>

\* no encoding is wider than five bytes
varint_size_narrow(value) ==
    IF value[2] = 0 /\ value[3] = 0 /\ value[4] = 0
    THEN (IF value[1] <= 252 THEN 1 ELSE 3)
    ELSE 5

\* utils.rs:173-180, block_processor.rs:82-89
varint_size(value) ==
    IF value[2] = 0 /\ value[3] = 0 /\ value[4] = 0
    THEN (IF value[1] <= 252 THEN 1 ELSE 3)
    ELSE IF value[3] = 0 /\ value[4] = 0 THEN 5
    ELSE 9

\* ------------------------------------------------------------------------
\* The three readers.  v selects the variant:
\*   "utils"            utils.rs             (used by processing.rs)
\*   "file_reader"      file_reader.rs       (FileReader)
\*   "main_concurrency" main_concurrency.rs
\* ------------------------------------------------------------------------

Variants == {"utils", "file_reader", "main_concurrency"}

\* the cap on script lengths of utils.rs and file_reader.rs
MaxScriptLen == 1000000

\* vec![0; n] of u8 with n > isize::MAX panics with "capacity overflow"
VecU8Overflows(n) == n[4] >= 32768

\* Vec::<Vec<u8>>::with_capacity(n) panics when 24 * n > isize::MAX,
\* i.e. n > 0x0555_5555_5555_5555
VecVecOverflows(n) ==
    \/ n[4] > 1365
    \/ n[4] = 1365 /\ n[3] > 21845
    \/ n[4] = 1365 /\ n[3] = 21845 /\ n[2] > 21845
    \/ n[4] = 1365 /\ n[3] = 21845 /\ n[2] = 21845 /\ n[1] > 21845

\* read_exact into a buffer of n bytes, n a u64
read_vec(d, p, n) ==
    IF VecU8Overflows(n) THEN Panic
    ELSE IF U64Huge(n) THEN Err
    ELSE read_exact(d, p, U64Small(n))

\* utils.rs and main_concurrency.rs: hash.reverse(), hex::encode(hash);
\* file_reader.rs: hash.to_vec()
\* hex::encode of the reversed bytes
display_hex(bytes) == encode(Rev(bytes))

read_hash(v, d, p) ==
    IF v = "file_reader" THEN read_exact(d, p, 32)
    ELSE Map(read_exact(d, p, 32), display_hex)

\* the check of the script length (utils.rs:120, :141; file_reader.rs:192,
\* :215); main_concurrency.rs has none
check_script_length(v, r) ==
    IF r.st # "Ok" THEN r
    ELSE IF v # "main_concurrency" /\ (U64Huge(r.val) \/ U64Small(r.val) > MaxScriptLen)
    THEN Err ELSE r

\* the reads of the fields, at the position the function has reached
get_u32(v, d, s) == read_u32(d, s.pos)
get_i32(v, d, s) == read_i32(d, s.pos)
get_i64(v, d, s) == read_i64(d, s.pos)
get_hash(v, d, s) == read_hash(v, d, s.pos)
get_var_int(v, d, s) == read_var_int(d, s.pos)
get_script_length(v, d, s) == check_script_length(v, read_var_int(d, s.pos))
get_script_sig(v, d, s) == Map(read_vec(d, s.pos, s.f.script_sig_length), encode)
get_script_pub_key(v, d, s) == Map(read_vec(d, s.pos, s.f.script_pub_key_length), encode)

input_of(index, s) ==
    IF s.st # "Ok" THEN s
    ELSE Ok([input_index |-> index,
             previous_txid |-> s.f.previous_txid,
             previous_output_index |-> s.f.previous_output_index,
             script_sig |-> s.f.script_sig,
             sequence |-> U32AsI64(s.f.sequence)], s.pos)

read_input(v, d, p, index) ==
    input_of(index,
        Bind(Bind(Bind(Bind(Bind(Start(p),
            "previous_txid", v, d, get_hash),
            "previous_output_index", v, d, get_i32),
            "script_sig_length", v, d, get_script_length),
            "script_sig", v, d, get_script_sig),
            "sequence", v, d, get_u32))

output_of(index, s) ==
    IF s.st # "Ok" THEN s
    ELSE Ok([output_index |-> index,
             value |-> s.f.value,
             script_pub_key |-> s.f.script_pub_key], s.pos)

read_output(v, d, p, index) ==
    output_of(index,
        Bind(Bind(Bind(Start(p),
            "value", v, d, get_i64),
            "script_pub_key_length", v, d, get_script_length),
            "script_pub_key", v, d, get_script_pub_key))

\* `for i in 0..count`: the loop is over when i reaches count
LoopDone(count, i) == ~U64Huge(count) /\ i >= U64Small(count)

\* one witness field: its length, then its bytes
read_witness_field(d, length) ==
    IF length.st # "Ok" THEN length ELSE read_vec(d, length.pos, length.val)

RECURSIVE read_items(_, _, _, _, _, _, _, _)
RECURSIVE read_transaction(_, _, _, _)

\* Vec::with_capacity(witness_count), then the loop over the fields
witness_fields_of(v, d, witness_count) ==
    IF witness_count.st # "Ok" THEN witness_count
    ELSE IF VecVecOverflows(witness_count.val) THEN Panic
    ELSE read_items(v, d, witness_count.pos, witness_count.val, 0, <<>>,
                    "witness_field", <<>>)

read_witness_data(v, d, p) == witness_fields_of(v, d, read_var_int(d, p))

\* the body of a loop: the item read and pushed
read_item(v, d, p, i, kind, block_hash) ==
    CASE kind = "input" -> read_input(v, d, p, i)
      [] kind = "output" -> read_output(v, d, p, i)
      [] kind = "witness_field" -> read_witness_field(d, read_var_int(d, p))
      [] kind = "witness" -> read_witness_data(v, d, p)
      [] kind = "transaction" -> read_transaction(v, d, p, block_hash)

\* `items.push(item?)` and the next turn of the loop
push_item(v, d, count, i, acc, kind, block_hash, r) ==
    IF r.st # "Ok" THEN r
    ELSE read_items(v, d, r.pos, count, i + 1, Append(acc, r.val), kind, block_hash)

\* `for i in 0..count { items.push(read_..(reader, i)?) }`
read_items(v, d, p, count, i, acc, kind, block_hash) ==
    IF LoopDone(count, i) THEN Ok(acc, p)
    ELSE push_item(v, d, count, i, acc, kind, block_hash,
                   read_item(v, d, p, i, kind, block_hash))

\* ------------------------------------------------------------------------
\* Hasher / sizer
\* ------------------------------------------------------------------------

\* the bytes of one hash field as fed to SHA-256: the String variants
\* (utils.rs, main_concurrency.rs) hex-decode and reverse, block_processor.rs
\* reverses the Vec<u8>
HashFieldBytes(v, h) ==
    IF v = "file_reader" THEN Rev(h) ELSE Rev(hex_decode(h))

\* the bits field as a u32: parsed back from hex (utils.rs:195,
\* main_concurrency.rs:301), or `block.bits as u32` (block_processor.rs:28)
\* of the little-endian bytes the FileReader stored
BitsAsU32(v, bits) ==
    IF v = "file_reader"
    THEN <<bits[1] + 256 * bits[2], bits[3] + 256 * bits[4]>>
    ELSE from_str_radix(bits)

\* the 80 bytes calculate_block_hash feeds to the first SHA-256
HeaderBytes(v, version, previous_block, merkle_root, time, bits, nonce) ==
    I32ToLeBytes(version)
    \o HashFieldBytes(v, previous_block)
    \o HashFieldBytes(v, merkle_root)
    \o U32ToLeBytes(I64AsU32(time))
    \o U32ToLeBytes(BitsAsU32(v, bits))
    \o U32ToLeBytes(I64AsU32(nonce))

\* the digest as the variant stores it: reversed, hex for the String variants
StoredDigest(v, bytes) ==
    LET second_hash == Sha256(Sha256(bytes)) IN
    IF v = "file_reader" THEN Rev(second_hash) ELSE encode(Rev(second_hash))

calculate_block_hash(v, version, previous_block, merkle_root, time, bits, nonce) ==
    StoredDigest(v, HeaderBytes(v, version, previous_block, merkle_root, time, bits, nonce))

InputBytes(v, input) ==
    HashFieldBytes(v, input.previous_txid)
    \o U32ToLeBytes(I32AsU32(input.previous_output_index))
    \o hex_decode(input.script_sig)
    \o U32ToLeBytes(I64AsU32(input.sequence))

OutputBytes(output) ==
    I64ToLeBytes(output.value) \o hex_decode(output.script_pub_key)

\* the bytes calculate_tx / calculate_txid feed to the first SHA-256
TxBytes(v, version, inputs, outputs, locktime) ==
    I32ToLeBytes(version)
    \o Concat([i \in 1..Len(inputs) |-> InputBytes(v, inputs[i])])
    \o Concat([i \in 1..Len(outputs) |-> OutputBytes(outputs[i])])
    \o U32ToLeBytes(I32AsU32(locktime))

calculate_txid(v, inputs, outputs, version, locktime) ==
    StoredDigest(v, TxBytes(v, version, inputs, outputs, locktime))

WitnessSize(witness) ==
    IF witness.some
    THEN SumSeq([i \in 1..Len(witness.stacks) |->
            SumSeq([j \in 1..Len(witness.stacks[i]) |->
                varint_size(UsizeAsU64(Len(witness.stacks[i][j]))) + Len(witness.stacks[i][j])])])
    ELSE 0

\* the size calculate_tx returns; script_sig and script_pub_key are hex
\* Strings, so len() counts hex digits
TxSize(tx) ==
    LET inputs_size == SumSeq([i \in 1..Len(tx.inputs) |->
            32 + 4 + varint_size(UsizeAsU64(Len(tx.inputs[i].script_sig)))
            + (Len(tx.inputs[i].script_sig) \div 2) + 4])
        outputs_size == SumSeq([i \in 1..Len(tx.outputs) |->
            8 + varint_size(UsizeAsU64(Len(tx.outputs[i].script_pub_key)))
            + (Len(tx.outputs[i].script_pub_key) \div 2)])
    IN 4 + varint_size(UsizeAsU64(Len(tx.inputs))) + inputs_size
       + varint_size(UsizeAsU64(Len(tx.outputs))) + outputs_size + 4 + WitnessSize(tx.witness)

\* the bytes of the witness stacks: every field with its length
WitnessBytes(witness) ==
    IF witness.some
    THEN Concat([i \in 1..Len(witness.stacks) |->
            Concat([j \in 1..Len(witness.stacks[i]) |->
                <<Len(witness.stacks[i][j])>> \o witness.stacks[i][j]])])
    ELSE <<>>

\* a txid over the witness serialization: the witness bytes are hashed too
calculate_tx_with_witness(v, tx) ==
    [txid |-> StoredDigest(v, TxBytes(v, tx.version, tx.inputs, tx.outputs, tx.locktime)
                              \o <<IF tx.witness.some THEN 1 ELSE 0>>
                              \o WitnessBytes(tx.witness)),
     size |-> TxSize(tx)]

\* utils.rs / block_processor.rs calculate_tx: (txid, size)
calculate_tx(v, tx) ==
    [txid |-> calculate_txid(v, tx.inputs, tx.outputs, tx.version, tx.locktime),
     size |-> TxSize(tx)]

\* ------------------------------------------------------------------------
\* read_transaction and read_block
\* ------------------------------------------------------------------------

NoWitness == [some |-> FALSE, stacks |-> <<>>]

\* any flag byte is taken for a SegWit flag
flag_any(flag) ==
    IF flag.st # "Ok" THEN flag ELSE Ok(TRUE, flag.pos)

\* utils.rs:58-61  the flag after a zero marker must be 1
flag_of(flag) ==
    IF flag.st # "Ok" THEN flag
    ELSE IF flag.val # 1 THEN Err ELSE Ok(TRUE, flag.pos)

\* a marker byte that is consumed whatever it is: no seek back
marker_consumed(d, p, marker) ==
    IF marker.st # "Ok" THEN marker
    ELSE IF marker.val = 0 THEN flag_of(read_u8(d, marker.pos))
    ELSE Ok(FALSE, marker.pos)

\* utils.rs:56-66  a zero marker is consumed with its flag; any other byte
\* is not consumed (seek by -1)
marker_of(d, p, marker) ==
    IF marker.st # "Ok" THEN marker
    ELSE IF marker.val = 0 THEN flag_of(read_u8(d, marker.pos))
    ELSE Ok(FALSE, p)

\* after version: the SegWit marker and flag (not in main_concurrency.rs).
\* val is the segwit flag, pos the position of in_count.
read_marker(v, d, p) ==
    IF v = "main_concurrency" THEN Ok(FALSE, p) ELSE marker_of(d, p, read_u8(d, p))

get_marker(v, d, s) == read_marker(v, d, s.pos)
get_inputs(v, d, s) ==
    read_items(v, d, s.pos, s.f.input_count, 0, <<>>, "input", <<>>)
get_outputs(v, d, s) ==
    read_items(v, d, s.pos, s.f.output_count, 0, <<>>, "output", <<>>)
get_witnesses(v, d, s) ==
    IF s.f.segwit
    THEN read_items(v, d, s.pos, s.f.input_count, 0, <<>>, "witness", <<>>)
    ELSE Ok(<<>>, s.pos)

transaction_of(v, block_hash, s) ==
    IF s.st # "Ok" THEN s
    ELSE Ok([txid |-> IF v = "main_concurrency"
                      THEN calculate_txid(v, s.f.inputs, s.f.outputs, s.f.version,
                                          U32AsI32(s.f.locktime))
                      ELSE <<>>,
             block_hash |-> block_hash,
             size |-> 0,
             version |-> s.f.version,
             locktime |-> U32AsI32(s.f.locktime),
             inputs |-> s.f.inputs,
             outputs |-> s.f.outputs,
             witness |-> IF s.f.segwit THEN [some |-> TRUE, stacks |-> s.f.witnesses]
                         ELSE NoWitness], s.pos)

read_transaction(v, d, p, block_hash) ==
    transaction_of(v, block_hash,
        Bind(Bind(Bind(Bind(Bind(Bind(Bind(Bind(Start(p),
            "version", v, d, get_i32),
            "segwit", v, d, get_marker),
            "input_count", v, d, get_var_int),
            "inputs", v, d, get_inputs),
            "output_count", v, d, get_var_int),
            "outputs", v, d, get_outputs),
            "witnesses", v, d, get_witnesses),
            "locktime", v, d, get_u32))

\* the bits field as the variant stores it
StoreBits(v, x) == IF v = "file_reader" THEN U32ToLeBytes(x) ELSE format_x(x)

\* main_concurrency.rs:182  the header is hashed before the transactions
\* are read; the other readers leave block_hash empty
get_block_hash(v, d, s) ==
    Ok(IF v = "main_concurrency"
       THEN calculate_block_hash(v, s.f.version, s.f.previous_block, s.f.merkle_root,
                U32AsI64(s.f.time), StoreBits(v, s.f.bits), U32AsI64(s.f.nonce))
       ELSE <<>>, s.pos)

get_transactions(v, d, s) ==
    read_items(v, d, s.pos, s.f.tx_count, 0, <<>>, "transaction", s.f.block_hash)

block_of(v, s) ==
    IF s.st # "Ok" THEN s
    ELSE Ok([block_hash |-> s.f.block_hash,
             height |-> 0,
             time |-> U32AsI64(s.f.time),
             difficulty |-> 0,
             merkle_root |-> s.f.merkle_root,
             nonce |-> U32AsI64(s.f.nonce),
             size |-> 0,
             version |-> s.f.version,
             bits |-> StoreBits(v, s.f.bits),
             previous_block |-> s.f.previous_block,
             active |-> TRUE,
             transactions |-> s.f.transactions], s.pos)

read_block(v, d, p) ==
    block_of(v,
        Bind(Bind(Bind(Bind(Bind(Bind(Bind(Bind(Bind(Bind(Bind(Start(p),
            "magic", v, d, get_u32),
            "size", v, d, get_u32),
            "version", v, d, get_i32),
            "previous_block", v, d, get_hash),
            "merkle_root", v, d, get_hash),
            "time", v, d, get_u32),
            "bits", v, d, get_u32),
            "nonce", v, d, get_u32),
            "block_hash", v, d, get_block_hash),
            "tx_count", v, d, get_var_int),
            "transactions", v, d, get_transactions))

\* the transactions of a block with the txid and the size that calculate_tx
\* gives each of them
with_txid_and_size(transactions) ==
    Tup([i \in 1..Len(transactions) |->
           [transactions[i] EXCEPT
              !.txid = calculate_tx("file_reader", transactions[i]).txid,
              !.size = calculate_tx("file_reader", transactions[i]).size]],
        Len(transactions))

\* the sizes of the transactions alone, the header left out
process_block_without_header(block) ==
    LET txs == with_txid_and_size(block.transactions)
    IN [block EXCEPT
          !.transactions = txs,
          !.size = SumSeq([i \in 1..Len(txs) |-> txs[i].size]),
          !.block_hash = calculate_block_hash("file_reader", block.version,
                             block.previous_block, block.merkle_root, block.time,
                             block.bits, block.nonce)]

\* block_processor.rs process_block: txid and size of every transaction,
\* then the block's size and hash
process_block(block) ==
    LET txs == with_txid_and_size(block.transactions)
        transactions_size == SumSeq([i \in 1..Len(txs) |-> txs[i].size])
        block_header_size == 4 + 32 + 32 + 4 + 4 + 4
    IN [block EXCEPT
          !.transactions = txs,
          !.size = block_header_size + transactions_size,
          !.block_hash = calculate_block_hash("file_reader", block.version,
                             block.previous_block, block.merkle_root, block.time,
                             block.bits, block.nonce)]

\* ------------------------------------------------------------------------
\* Block files of the model: records serialized as the node writes them
\* (magic, size, 80-byte header, tx_count, transactions), and damaged ones.
\* ------------------------------------------------------------------------

VarIntBytes(n) == IF n < 253 THEN <<n>> ELSE <<253, n % 256, n \div 256>>

Hash0 == Zeros(32)
Hash1 == Tup([i \in 1..32 |-> i], 32)
Hash2 == Tup([i \in 1..32 |-> 255 - 3 * i], 32)

InputRaw(inp) ==
    inp.prev \o inp.index \o inp.len \o inp.script \o inp.sequence

OutputRaw(out) ==
    out.value \o VarIntBytes(Len(out.script)) \o out.script

StackRaw(stack) ==
    VarIntBytes(Len(stack))
    \o Concat([i \in 1..Len(stack) |-> VarIntBytes(Len(stack[i])) \o stack[i]])

TxRaw(tx) ==
    tx.version \o tx.marker
    \o VarIntBytes(Len(tx.inputs)) \o Concat([i \in 1..Len(tx.inputs) |-> InputRaw(tx.inputs[i])])
    \o VarIntBytes(Len(tx.outputs)) \o Concat([i \in 1..Len(tx.outputs) |-> OutputRaw(tx.outputs[i])])
    \o Concat([i \in 1..Len(tx.stacks) |-> StackRaw(tx.stacks[i])])
    \o tx.locktime

HeaderRaw(b) ==
    b.version \o b.previous_block \o b.merkle_root \o b.time \o b.bits \o b.nonce

RecordRaw(b) ==
    LET payload == HeaderRaw(b) \o VarIntBytes(Len(b.txs))
                   \o Concat([i \in 1..Len(b.txs) |-> TxRaw(b.txs[i])])
    IN <<249, 190, 180, 217>>
       \o <<Len(payload) % 256, Len(payload) \div 256, 0, 0>>
       \o payload

\* a coinbase input: no previous output, index 0xFFFFFFFF
CoinbaseIn == [prev |-> Hash0, index |-> <<255, 255, 255, 255>>, len |-> <<2>>,
               script |-> <<4, 255>>, sequence |-> <<255, 255, 255, 255>>]

SpendIn == [prev |-> Hash2, index |-> <<1, 0, 0, 0>>, len |-> <<3>>,
            script |-> <<171, 0, 205>>, sequence |-> <<254, 255, 255, 255>>]

\* an input whose script_sig_len is the varint FF .. 80: 2^63
HugeIn == [prev |-> Hash1, index |-> <<0, 0, 0, 0>>,
           len |-> <<255, 0, 0, 0, 0, 0, 0, 0, 128>>,
           script |-> <<>>, sequence |-> <<0, 0, 0, 0>>]

Out50 == [value |-> <<0, 242, 5, 42, 1, 0, 0, 0>>, script |-> <<65>>]
Out1 == [value |-> <<1, 0, 0, 0, 0, 0, 0, 0>>, script |-> <<118, 169>>]

LegacyTx == [version |-> <<1, 0, 0, 0>>, marker |-> <<>>, inputs |-> <<CoinbaseIn>>,
             outputs |-> <<Out50>>, stacks |-> <<>>, locktime |-> <<0, 0, 0, 0>>]

SegwitTx == [version |-> <<2, 0, 0, 0>>, marker |-> <<0, 1>>, inputs |-> <<SpendIn>>,
             outputs |-> <<Out1, Out50>>, stacks |-> << <<<<48, 1>>, <<2>>>> >>,
             locktime |-> <<16, 39, 0, 128>>]

\* the SegWit marker 0x00 followed by the flag 0x02
BadFlagTx == [SegwitTx EXCEPT !.marker = <<0, 2>>]

HugeScriptTx == [LegacyTx EXCEPT !.inputs = <<HugeIn>>]

\* a segwit transaction whose first witness count is 2^63: more stacks than
\* a Vec<Vec<u8>> can hold
WitnessOverflowTx ==
    [SegwitTx EXCEPT !.stacks = <<>>, !.locktime = <<255, 0, 0, 0, 0, 0, 0, 0, 128>>]

\* the genesis header fields: time 1231006505, bits 0x1d00ffff, nonce 2083236893
HeaderA == [version |-> <<1, 0, 0, 0>>, previous_block |-> Hash0, merkle_root |-> Hash1,
            time |-> <<41, 171, 95, 73>>, bits |-> <<255, 255, 0, 29>>,
            nonce |-> <<29, 172, 43, 124>>]

\* version 0x20000000, bits 0x0300ffff (seven hex digits), nonce above 2^31
HeaderB == [version |-> <<0, 0, 0, 32>>, previous_block |-> Hash1, merkle_root |-> Hash2,
            time |-> <<0, 0, 0, 240>>, bits |-> <<255, 255, 0, 3>>,
            nonce |-> <<1, 2, 3, 200>>]

\* a negative version and a zero bits field
HeaderE == [version |-> <<255, 255, 255, 255>>, previous_block |-> Hash2,
            merkle_root |-> Hash0, time |-> <<0, 0, 0, 0>>, bits |-> <<0, 0, 0, 0>>,
            nonce |-> <<0, 0, 0, 0>>]

BlockOf(kind) ==
    CASE kind = "A" -> [HeaderA EXCEPT !.previous_block = Hash0] @@ [txs |-> <<LegacyTx>>]
      [] kind = "B" -> HeaderB @@ [txs |-> <<LegacyTx, SegwitTx>>]
      [] kind = "E" -> HeaderE @@ [txs |-> <<>>]
      [] kind = "W" -> HeaderB @@ [txs |-> <<BadFlagTx>>]
      [] kind = "H" -> HeaderA @@ [txs |-> <<HugeScriptTx>>]
      [] kind = "X" -> HeaderB @@ [txs |-> <<WitnessOverflowTx>>]

\* well-formed records, and records whose decoding fails
GoodKinds == {"A", "B", "E"}
BadKinds == {"W", "H", "X"}
Kinds == GoodKinds \cup BadKinds

RecA == RecordRaw(BlockOf("A"))
RecB == RecordRaw(BlockOf("B"))
RecE == RecordRaw(BlockOf("E"))
RecW == RecordRaw(BlockOf("W"))
RecH == RecordRaw(BlockOf("H"))
RecX == RecordRaw(BlockOf("X"))

Record(kind) ==
    CASE kind = "A" -> RecA
      [] kind = "B" -> RecB
      [] kind = "E" -> RecE
      [] kind = "W" -> RecW
      [] kind = "H" -> RecH
      [] kind = "X" -> RecX

\* lengths of the cut-off record a file may end with: none, inside the
\* magic, inside the header, inside the first transaction
TailLens == {0, 3, 50, 100}

\* all sequences over S of length at most n
RECURSIVE SeqsUpTo(_, _)
SeqsUpTo(S, n) ==
    IF n = 0 THEN {<<>>}
    ELSE LET shorter == SeqsUpTo(S, n - 1) IN
         shorter \cup {Append(q, x) : q \in {t \in shorter : Len(t) = n - 1}, x \in S}

\* the bytes of the file holding the records recs and then the first
\* tail bytes of a record A
FileOf(recs, tail) ==
    Concat([i \in 1..Len(recs) |-> Record(recs[i])]) \o SubSeq(RecA, 1, tail)

\* the offset at which record k of the file starts
RECURSIVE OffsetOf(_, _)
OffsetOf(recs, k) ==
    IF k <= 1 THEN 0 ELSE OffsetOf(recs, k - 1) + Len(Record(recs[k - 1]))

\* the index of the record that starts at offset p (the cut-off tail is
\* record Len(recs) + 1), 0 when no record starts there
RecordAt(recs, tail, p) ==
    LET n == Len(recs) + (IF tail > 0 THEN 1 ELSE 0)
        at == {k \in 1..n : OffsetOf(recs, k) = p}
    IN IF at = {} THEN 0 ELSE CHOOSE k \in at : TRUE

\* the first record of the file that is damaged, Len(recs) + 1 when it is
\* the cut-off tail, Len(recs) + 2 when there is none
FirstBad(recs, tail) ==
    LET bad == {k \in 1..Len(recs) : recs[k] \in BadKinds} IN
    IF bad # {} THEN CHOOSE k \in bad : \A j \in bad : k <= j
    ELSE IF tail > 0 THEN Len(recs) + 1 ELSE Len(recs) + 2

\* the kinds of record each reader variant fails on: main_concurrency.rs
\* knows no SegWit marker, so it also fails on B
BadFor(v) == IF v = "main_concurrency" THEN BadKinds \cup {"B"} ELSE BadKinds

\* FirstBad for the reader variant v
FirstBadFor(v, recs, tail) ==
    LET bad == {k \in 1..Len(recs) : recs[k] \in BadFor(v)} IN
    IF bad # {} THEN CHOOSE k \in bad : \A j \in bad : k <= j
    ELSE IF tail > 0 THEN Len(recs) + 1 ELSE Len(recs) + 2

\* ------------------------------------------------------------------------
\* State
\* ------------------------------------------------------------------------

VARIABLES
    \* the reader stage: processing.rs process_file and
    \* FileReader::process_file
    stage,        \* which of the two runs
    openable,     \* File::open succeeds
    recs,         \* the kinds of the complete records of the file
    tail,         \* the length of the cut-off record at its end
    pos,          \* the BufReader's position
    pc,           \* where the stage is
    cur,          \* the block read and not yet sent
    chan,         \* the mpsc channel
    rxOpen,       \* the Receiver has not been dropped
    sent,         \* every item the stage has sent, in order
    received,     \* every item the consumer has received, in order
    block_tasks,  \* the JoinHandles of FileReader::process_file
    blocks,       \* the Vec FileReader::process_file returns
    result        \* what the stage returned

readVars == <<stage, openable, recs, tail, pos, pc, cur, chan, rxOpen, sent,
              received, block_tasks, blocks, result>>

VARIABLES
    \* the hasher applied to one decoded record
    variant,      \* the reader and the hasher that consumes its blocks
    record,       \* the bytes of the record
    hpc,          \* where the decode-and-hash run is
    block,        \* the decoded, then hashed block
    fed,          \* the bytes calculate_block_hash fed to the first SHA-256
    successor     \* the block decoded from the record that follows in the file

hashVars == <<variant, record, hpc, block, fed, successor>>

VARIABLES
    \* the loaders: main_concurrency.rs (one task per directory entry) and
    \* database.rs (Database::insert_blocks)
    program,      \* which of the two runs
    entries,      \* the directory entries main enumerates
    fpc,          \* where the task of each entry is
    fpos,         \* the position of each task's BufReader
    fcur,         \* the block each task is inserting
    txn,          \* the rows each open database transaction has staged
    db,           \* the rows visible in the tables
    attempted,    \* per entry, the records whose insert was started, in order
    history,      \* the insert calls that have returned
    run,          \* the state of main
    ids,          \* the id counters of the Database
    batch,        \* the blocks passed to insert_blocks
    lines,        \* the lines insert_blocks has built, per table
    dpc,          \* where insert_blocks is
    dtxn          \* the rows the transaction of insert_blocks has staged

loadVars == <<program, entries, fpc, fpos, fcur, txn, db, attempted, history, run,
              ids, batch, lines, dpc, dtxn>>

VARIABLES
    \* a function of utils.rs applied to one argument
    calc,         \* which function
    arg,          \* its argument
    cpc,          \* where the application is
    ret           \* what it returned

calcVars == <<calc, arg, cpc, ret>>

VARIABLES
    \* main.rs: the live-sync program
    lpc,          \* where main is
    cursor,       \* the local block_hash of the loop that runs (0: empty string)
    new_tip,      \* the block handle_reorg was called with
    lblocks,      \* the blocks table: the active flag of every stored block
    ltxs,         \* the blocks whose transactions are in the transactions table
    before        \* the blocks table when handle_reorg was called

liveVars == <<lpc, cursor, new_tip, lblocks, ltxs, before>>

vars == <<readVars, hashVars, loadVars, calcVars, liveVars>>

\* what the actions of one part of the model leave alone
notReadVars == <<hashVars, loadVars, calcVars, liveVars>>
notHashVars == <<readVars, loadVars, calcVars, liveVars>>
notLoadVars == <<readVars, hashVars, calcVars, liveVars>>
notCalcVars == <<readVars, hashVars, loadVars, liveVars>>
notLiveVars == <<readVars, hashVars, loadVars, calcVars>>

\* ------------------------------------------------------------------------
\* The reader stage
\* ------------------------------------------------------------------------

\* capacity of the channel between the reader stage and its consumer
ChanCap == 1

Stages == {"processing", "file_reader"}

NoItem == [rec |-> 0, block |-> <<>>]

\* the reader variant each stage calls
ReaderOf(s) == IF s = "processing" THEN "utils" ELSE "file_reader"

file == FileOf(recs, tail)

ReadIdle ==
    /\ stage = "processing" /\ openable = FALSE /\ recs = <<>> /\ tail = 0
    /\ pos = 0 /\ pc = "idle" /\ cur = NoItem /\ chan = <<>> /\ rxOpen = FALSE
    /\ sent = <<>> /\ received = <<>> /\ block_tasks = <<>> /\ blocks = <<>>
    /\ result = "none"

ReadInit ==
    /\ stage \in Stages
    /\ openable \in BOOLEAN
    /\ recs \in SeqsUpTo(Kinds, MaxRecords)
    /\ tail \in TailLens
    /\ (~openable => recs = <<>> /\ tail = 0)
    /\ pos = 0 /\ pc = "open" /\ cur = NoItem /\ chan = <<>> /\ rxOpen = TRUE
    /\ sent = <<>> /\ received = <<>> /\ block_tasks = <<>> /\ blocks = <<>>
    /\ result = "none"

\* File::open(&path)?  (processing.rs:9, file_reader.rs:63)
Open ==
    /\ pc = "open"
    /\ IF openable
       THEN pc' = "read" /\ result' = result
       ELSE pc' = "done" /\ result' = "Err"
    /\ UNCHANGED <<stage, openable, recs, tail, pos, cur, chan, rxOpen, sent,
                   received, block_tasks, blocks>>
    /\ UNCHANGED notReadVars

\* processing.rs:12  `while let Ok(block) = read_block(&mut reader)`:
\* a block is bound for the loop body, any Err ends the loop and the
\* function returns Ok(()), a panic unwinds the task
P_Read ==
    /\ stage = "processing" /\ pc = "read"
    /\ \E r \in {read_block("utils", file, pos)} :
       CASE r.st = "Ok" ->
              /\ cur' = [rec |-> RecordAt(recs, tail, pos), block |-> r.val]
              /\ pos' = r.pos /\ pc' = "send" /\ result' = result
         [] r.st = "Err" ->
              /\ pc' = "done" /\ result' = "Ok" /\ UNCHANGED <<cur, pos>>
         [] OTHER ->
              /\ pc' = "done" /\ result' = "Panic" /\ UNCHANGED <<cur, pos>>
    /\ UNCHANGED <<stage, openable, recs, tail, chan, rxOpen, sent, received,
                   block_tasks, blocks>>
    /\ UNCHANGED notReadVars

\* a send that never waits: the channel takes the item whatever it holds
send_unbounded(c) == TRUE

\* processing.rs:13  tx.send(..).await completes once the bounded channel
\* has a free slot
send_ready(c) == Len(c) < ChanCap

\* processing.rs:13  tx.send((path.clone(), block)).await.unwrap():
\* suspends while the channel is full, panics when the receiver is gone
P_Send ==
    /\ stage = "processing" /\ pc = "send"
    /\ IF ~rxOpen
       THEN /\ pc' = "done" /\ result' = "Panic"
            /\ UNCHANGED <<cur, chan, sent>>
       ELSE /\ send_ready(chan)
            /\ chan' = Append(chan, cur)
            /\ sent' = Append(sent, cur)
            /\ cur' = NoItem /\ pc' = "read" /\ result' = result
    /\ UNCHANGED <<stage, openable, recs, tail, pos, rxOpen, received,
                   block_tasks, blocks>>
    /\ UNCHANGED notReadVars

\* the consumer of the channel receives the oldest item
Recv ==
    /\ stage = "processing" /\ rxOpen /\ chan # <<>>
    /\ received' = Append(received, Head(chan))
    /\ chan' = Tail(chan)
    /\ UNCHANGED <<stage, openable, recs, tail, pos, pc, cur, rxOpen, sent,
                   block_tasks, blocks, result>>
    /\ UNCHANGED notReadVars

\* the consumer drops the Receiver; what the channel holds is lost
RxClose ==
    /\ stage = "processing" /\ rxOpen /\ pc # "idle"
    /\ rxOpen' = FALSE
    /\ chan' = <<>>
    /\ UNCHANGED <<stage, openable, recs, tail, pos, pc, cur, sent, received,
                   block_tasks, blocks, result>>
    /\ UNCHANGED notReadVars

\* a Sender that outlives the stage (leaked, or a clone kept elsewhere)
sender_kept == FALSE

\* processing.rs:8-17  process_file owns tx: the Sender is dropped when the
\* function returns or unwinds
sender_dropped == stage = "processing" /\ pc = "done"

\* a consumer that drains: its recv returns None, and it exits, once every
\* Sender is dropped and the channel is empty
RxExit ==
    /\ stage = "processing" /\ rxOpen
    /\ sender_dropped
    /\ chan = <<>>
    /\ rxOpen' = FALSE
    /\ UNCHANGED <<stage, openable, recs, tail, pos, pc, cur, chan, sent, received,
                   block_tasks, blocks, result>>
    /\ UNCHANGED notReadVars

\* file_reader.rs:68-71  the read loop: every block read is moved into a
\* spawn_blocking task, whose handle is pushed
F_Read ==
    /\ stage = "file_reader" /\ pc = "read"
    /\ \E r \in {read_block("file_reader", file, pos)} :
       CASE r.st = "Ok" ->
              /\ block_tasks' = Append(block_tasks,
                     [item |-> [rec |-> RecordAt(recs, tail, pos), block |-> r.val],
                      finished |-> FALSE])
              /\ pos' = r.pos /\ UNCHANGED <<pc, result>>
         [] r.st = "Err" ->
              /\ pc' = "await" /\ UNCHANGED <<block_tasks, pos, result>>
         [] OTHER ->
              /\ pc' = "done" /\ result' = "Panic" /\ UNCHANGED <<block_tasks, pos>>
    /\ UNCHANGED <<stage, openable, recs, tail, cur, chan, rxOpen, sent, received,
                   blocks>>
    /\ UNCHANGED notReadVars

\* a blocking-pool thread runs the closure of one task (`move || block`)
F_TaskRun ==
    /\ stage = "file_reader"
    /\ \E i \in DOMAIN block_tasks :
         /\ ~block_tasks[i].finished
         /\ block_tasks' = [block_tasks EXCEPT ![i].finished = TRUE]
    /\ UNCHANGED <<stage, openable, recs, tail, pos, pc, cur, chan, rxOpen, sent,
                   received, blocks, result>>
    /\ UNCHANGED notReadVars

\* any handle, in the order the tasks complete
AwaitFinished(tasks) == DOMAIN tasks

\* the handle `for task in block_tasks` awaits next: the first one
AwaitChoices(tasks) == {1}

\* file_reader.rs:73-78  task.await, then blocks.push(block)
F_Await ==
    /\ stage = "file_reader" /\ pc = "await"
    /\ \E i \in AwaitChoices(block_tasks) :
         /\ i \in DOMAIN block_tasks
         /\ block_tasks[i].finished
         /\ blocks' = Append(blocks, block_tasks[i].item)
         /\ block_tasks' = Tup([j \in 1..(Len(block_tasks) - 1) |->
                                   IF j < i THEN block_tasks[j] ELSE block_tasks[j + 1]],
                                Len(block_tasks) - 1)
    /\ UNCHANGED <<stage, openable, recs, tail, pos, pc, cur, chan, rxOpen, sent,
                   received, result>>
    /\ UNCHANGED notReadVars

\* file_reader.rs:80  Ok(blocks)
F_Return ==
    /\ stage = "file_reader" /\ pc = "await" /\ block_tasks = <<>>
    /\ pc' = "done" /\ result' = "Ok"
    /\ UNCHANGED <<stage, openable, recs, tail, pos, cur, chan, rxOpen, sent,
                   received, block_tasks, blocks>>
    /\ UNCHANGED notReadVars

ReadNext ==
    \/ Open
    \/ P_Read
    \/ P_Send
    \/ Recv
    \/ RxClose
    \/ F_Read
    \/ F_TaskRun
    \/ F_Await
    \/ F_Return

\* the reader stage with a consumer that receives until the channel is
\* closed and never drops its Receiver before
DrainNext ==
    \/ Open
    \/ P_Read
    \/ P_Send
    \/ Recv
    \/ RxExit
    \/ F_Read
    \/ F_TaskRun
    \/ F_Await
    \/ F_Return

\* ------------------------------------------------------------------------
\* The hasher applied to a decoded record
\* ------------------------------------------------------------------------

\* well-formed records: every combination of these header fields and
\* transaction lists
Versions == {HeaderA.version, HeaderB.version, HeaderE.version}
Hashes == {Hash0, Hash1, Hash2}
TimeBitsNonces == {<<h.time, h.bits, h.nonce>> : h \in {HeaderA, HeaderB, HeaderE}}
TxLists == {<<>>, <<LegacyTx>>, <<LegacyTx, SegwitTx>>}

WellFormedRecords ==
    {RecordRaw([version |-> ver, previous_block |-> prev, merkle_root |-> root,
                time |-> tbn[1], bits |-> tbn[2], nonce |-> tbn[3], txs |-> txs]) :
        ver \in Versions, prev \in Hashes, root \in Hashes,
        tbn \in TimeBitsNonces, txs \in TxLists}

\* the 80 header bytes of a record: after the magic and the size
HeaderOf(rec) == SubSeq(rec, 9, 88)

HashIdle ==
    /\ variant = "utils" /\ record = <<>> /\ hpc = "idle" /\ block = <<>> /\ fed = <<>>
    /\ successor = <<>>

HashInit ==
    /\ variant \in Variants
    /\ record \in WellFormedRecords
    /\ hpc = "decode" /\ block = <<>> /\ fed = <<>> /\ successor = <<>>

\* the bytes calculate_block_hash feeds to the first SHA-256 for block b
FedFor(v, b) ==
    HeaderBytes(v, b.version, b.previous_block, b.merkle_root, b.time, b.bits, b.nonce)

\* read_block of the variant; main_concurrency.rs:182 hashes the header
\* inside read_block
H_Decode ==
    /\ hpc = "decode"
    /\ \E r \in {read_block(variant, record, 0)} :
       IF r.st # "Ok"
       THEN hpc' = "failed" /\ UNCHANGED <<block, fed>>
       ELSE /\ block' = r.val
            /\ IF variant = "main_concurrency"
               THEN hpc' = "done" /\ fed' = FedFor(variant, r.val)
               ELSE hpc' = "hash" /\ fed' = fed
    /\ UNCHANGED <<variant, record, successor>>
    /\ UNCHANGED notHashVars

\* block_processor.rs process_block on a block of the FileReader
H_ProcessBlock ==
    /\ hpc = "hash" /\ variant = "file_reader"
    /\ block' = process_block(block)
    /\ fed' = FedFor(variant, block)
    /\ hpc' = "done"
    /\ UNCHANGED <<variant, record, successor>>
    /\ UNCHANGED notHashVars

\* utils.rs calculate_block_hash and calculate_tx on a block of utils.rs
\* read_block
H_Calculate ==
    /\ hpc = "hash" /\ variant = "utils"
    /\ block' = [block EXCEPT
          !.block_hash = calculate_block_hash(variant, block.version,
                             block.previous_block, block.merkle_root, block.time,
                             block.bits, block.nonce),
          !.transactions = Tup([i \in 1..Len(block.transactions) |->
               LET r == calculate_tx(variant, block.transactions[i]) IN
               [block.transactions[i] EXCEPT !.txid = r.txid, !.size = r.size]],
               Len(block.transactions))]
    /\ fed' = FedFor(variant, block)
    /\ hpc' = "done"
    /\ UNCHANGED <<variant, record, successor>>
    /\ UNCHANGED notHashVars

\* the record a node appends after rec: its previous-block field is the
\* double SHA-256 of the 80 header bytes of rec
NextRecord(rec) ==
    RecordRaw([version |-> HeaderB.version,
               previous_block |-> Sha256(Sha256(HeaderOf(rec))),
               merkle_root |-> Hash2,
               time |-> HeaderB.time, bits |-> HeaderB.bits, nonce |-> HeaderB.nonce,
               txs |-> <<>>])

\* the reader goes on to the next record of the file
H_Successor ==
    /\ hpc = "done"
    /\ \E r \in {read_block(variant, record \o NextRecord(record), Len(record))} :
         /\ r.st = "Ok"
         /\ successor' = r.val
    /\ hpc' = "linked"
    /\ UNCHANGED <<variant, record, block, fed>>
    /\ UNCHANGED notHashVars

HashNext ==
    \/ H_Decode
    \/ H_ProcessBlock
    \/ H_Calculate
    \/ H_Successor

\* ------------------------------------------------------------------------
\* The loaders: rows, transactions, Database::insert_blocks
\* ------------------------------------------------------------------------

\* a row of a table: id is the id column (0 where the schema has none), key
\* the identifying columns, src the insert call the row belongs to
Row(table, id, key, src) == [table |-> table, id |-> id, key |-> key, src |-> src]

\* a copy-in on the bare connection: the rows are visible at once
copy_in_autocommit(visible, staged, rows) ==
    [db |-> visible \cup rows, txn |-> staged]

\* transaction.copy_in(..) ... sink.close(): the transaction stages the
\* rows, which become visible at commit
copy_in(visible, staged, rows) ==
    [db |-> visible, txn |-> staged \cup rows]

\* hex::decode("ef412cf1...0548") and hex::decode("4a4780f0...d40b")
bip30_conflicts ==
    { <<239, 65, 44, 241, 248, 255, 68, 187, 240, 190, 222, 30, 163, 10, 12, 231,
      65, 214, 37, 66, 94, 219, 245, 56, 131, 213, 63, 124, 104, 42, 5, 72>>,
      <<74, 71, 128, 240, 4, 111, 15, 105, 212, 41, 163, 43, 3, 7, 170, 186,
      242, 253, 67, 118, 133, 238, 24, 210, 130, 116, 244, 205, 161, 227, 212, 11>> }

\* the two txids the specification names as the BIP30 duplicates:
\* e3bf3d07...b468 and d5d27987...8599
CanonicalBip30 ==
    { <<227, 191, 61, 7, 212, 176, 55, 86, 56, 213, 241, 219, 82, 85, 254, 7,
      186, 44, 76, 176, 103, 205, 129, 184, 78, 233, 116, 182, 88, 95, 180, 104>>,
      <<213, 210, 121, 135, 210, 163, 223, 199, 36, 227, 89, 135, 12, 102, 68, 180,
      14, 73, 123, 220, 5, 137, 160, 51, 34, 15, 225, 84, 41, 216, 133, 153>> }

\* a check that suppresses no transaction
never_conflict(txid) == FALSE

is_bip30_conflict(txid) == \E conflict \in bip30_conflicts : conflict = txid

\* calls of insert_blocks in one run
MaxCalls == 2
\* blocks in a batch
MaxBatch == 2
\* transactions in a block of a batch
MaxBatchTxs == 1

\* txids of the transactions of a batch: one the code suppresses, one of
\* the specification's two, and an ordinary one
BatchTxids ==
    { CHOOSE t \in bip30_conflicts : t[1] = 239,
      CHOOSE t \in CanonicalBip30 : t[1] = 227,
      Hash1 }

\* a hashed transaction as insert_blocks uses it
BatchTx(txid) ==
    [txid |-> txid,
     inputs |-> <<[input_index |-> 0]>>,
     outputs |-> <<[output_index |-> 0], [output_index |-> 1]>>]

BatchTxLists == {Tup([i \in 1..Len(q) |-> BatchTx(q[i])], Len(q)) :
                    q \in SeqsUpTo(BatchTxids, MaxBatchTxs)}

\* batches: block n of the batch has block_hash <<n>>
Batches ==
    {Tup([n \in 1..Len(q) |-> [block_hash |-> <<n>>, transactions |-> q[n]]], Len(q)) :
        q \in SeqsUpTo(BatchTxLists, MaxBatch)}

Tables == <<"blocks", "transactions", "inputs", "outputs", "block_transactions">>

NoLines == [t \in {Tables[i] : i \in 1..5} |-> <<>>]

\* Database::new
NewIds == [block_id |-> 1, tx_id |-> 1, input_id |-> 1, output_id |-> 1,
           block_tx_id |-> 1]

\* i32::MAX, the largest value of an id field of Database
IdMax == 2147483647

\* `id += n` on an i32 as a build without overflow checks computes it:
\* past i32::MAX the value wraps to the negative end
add_i32(a, n) ==
    IF a <= IdMax - n THEN a + n
    ELSE (((a - IdMax) + (n - 1)) - IdMax) - 1

\* database.rs:107-148  the body of `for tx in &block.transactions`
AddTx(st, b, tx) ==
    IF is_bip30_conflict(tx.txid) THEN st
    ELSE LET i == st.ids
             l == st.lines
         IN [ids |-> [i EXCEPT !.input_id = add_i32(@, Len(tx.inputs)),
                               !.output_id = add_i32(@, Len(tx.outputs)),
                               !.block_tx_id = add_i32(@, 1),
                               !.tx_id = add_i32(@, 1)],
             lines |-> [l EXCEPT
                !["transactions"] = Append(@,
                    Row("transactions", i.tx_id, <<tx.txid, b.block_hash>>, <<>>)),
                !["inputs"] = @ \o Tup([j \in 1..Len(tx.inputs) |->
                    Row("inputs", add_i32(i.input_id, j - 1),
                        <<tx.txid, tx.inputs[j].input_index>>, <<>>)], Len(tx.inputs)),
                !["outputs"] = @ \o Tup([j \in 1..Len(tx.outputs) |->
                    Row("outputs", add_i32(i.output_id, j - 1),
                        <<tx.txid, tx.outputs[j].output_index>>, <<>>)], Len(tx.outputs)),
                !["block_transactions"] = Append(@,
                    Row("block_transactions", i.block_tx_id,
                        <<i.block_id, i.tx_id>>, <<>>))]]

RECURSIVE AddTxs(_, _, _)
AddTxs(st, b, k) ==
    IF k > Len(b.transactions) THEN st
    ELSE AddTxs(AddTx(st, b, b.transactions[k]), b, k + 1)

\* database.rs:98-151  the body of `for block in blocks`
AddBlock(st, b) ==
    LET st1 == [st EXCEPT !.lines["blocks"] =
                    Append(@, Row("blocks", st.ids.block_id, <<b.block_hash>>, <<>>))]
        st2 == AddTxs(st1, b, 1)
    IN [st2 EXCEPT !.ids.block_id = add_i32(@, 1)]

RECURSIVE AddBlocks(_, _, _)
AddBlocks(st, bs, n) ==
    IF n > Len(bs) THEN st ELSE AddBlocks(AddBlock(st, bs[n]), bs, n + 1)

\* every row of the lines built, over all tables
RowsOfLines(l) == UNION {{l[t][j] : j \in 1..Len(l[t])} : t \in DOMAIN l}

\* directory entries enumerated by main
NumFiles == 2

Files == 1..NumFiles

LoadIdle ==
    /\ program = "none" /\ entries = <<>> /\ fpc = <<>> /\ fpos = <<>> /\ fcur = <<>>
    /\ txn = <<>> /\ db = {} /\ attempted = <<>> /\ history = <<>> /\ run = "idle"
    /\ ids = NewIds /\ batch = <<>> /\ lines = NoLines /\ dpc = "off" /\ dtxn = {}

\* the state of the main_concurrency.rs variables while database.rs runs
ImportIdle ==
    /\ entries = <<>> /\ fpc = <<>> /\ fpos = <<>> /\ fcur = <<>> /\ txn = <<>>
    /\ attempted = <<>> /\ run = "idle"

\* Database::new, the schema set up and empty
DatabaseInit ==
    /\ program = "database"
    /\ ImportIdle
    /\ db = {} /\ history = <<>>
    /\ ids = NewIds /\ batch = <<>> /\ lines = NoLines /\ dpc = "idle" /\ dtxn = {}

\* the ids after 2^30 - 1 blocks of one transaction with one input and two
\* outputs each have been built
LateIds == [block_id |-> 1073741824, tx_id |-> 1073741824, input_id |-> 1073741824,
            output_id |-> 2147483647, block_tx_id |-> 1073741824]

\* a Database late in a long import: the tables are left out
DatabaseLate ==
    /\ program = "database"
    /\ ImportIdle
    /\ db = {} /\ history = <<>>
    /\ ids = LateIds /\ batch = <<>> /\ lines = NoLines /\ dpc = "idle" /\ dtxn = {}

\* a Database, fresh or late, on which every call so far has failed at
\* client.transaction(): one call of insert_blocks remains in the run
DatabaseLastCall ==
    /\ program = "database"
    /\ ImportIdle
    /\ db = {}
    /\ history = Tup([n \in 1..(MaxCalls - 1) |->
                         [rows |-> {}, staged |-> {}, ok |-> FALSE]], MaxCalls - 1)
    /\ ids \in {NewIds, LateIds}
    /\ batch = <<>> /\ lines = NoLines /\ dpc = "idle" /\ dtxn = {}

\* database.rs:89-96  insert_blocks is called with a batch:
\* self.client.transaction().await?
D_Begin ==
    /\ program = "database" /\ dpc = "idle" /\ Len(history) < MaxCalls
    /\ \E bs \in Batches, ok \in BOOLEAN :
         /\ batch' = bs
         /\ IF ok
            THEN dpc' = "build" /\ history' = history
            ELSE /\ dpc' = "idle"
                 /\ history' = Append(history, [rows |-> {}, staged |-> {}, ok |-> FALSE])
    /\ lines' = NoLines
    /\ UNCHANGED <<program, entries, fpc, fpos, fcur, txn, db, attempted, run, ids, dtxn>>
    /\ UNCHANGED notLoadVars

\* an `id += 1` of the build went past i32::MAX
Overflowed(old, new) == \E f \in DOMAIN old : new[f] < old[f]

\* the builds of the crate: with overflow checks (the dev profile) an
\* overflowing `+=` panics, without them (the release profile) it wraps
Profiles == {"dev", "release"}

\* database.rs:98-151  the lines of every table are built, the ids advance;
\* a panic unwinds out of insert_blocks
D_Build ==
    /\ program = "database" /\ dpc = "build"
    /\ \E st \in {AddBlocks([ids |-> ids, lines |-> NoLines], batch, 1)},
          profile \in Profiles :
         IF Overflowed(ids, st.ids) /\ profile = "dev"
         THEN /\ dpc' = "panicked"
              /\ UNCHANGED <<ids, lines>>
         ELSE /\ ids' = st.ids
              /\ lines' = st.lines
              /\ dpc' = Tables[1]
    /\ UNCHANGED <<program, entries, fpc, fpos, fcur, txn, db, attempted, history, run,
                   batch, dtxn>>
    /\ UNCHANGED notLoadVars

\* an order of the copy_data calls with outputs before inputs
AfterTableSwapped(k) ==
    CASE k = 2 -> "outputs"
      [] k = 4 -> "inputs"
      [] k = 3 -> "block_transactions"
      [] k = 1 -> "transactions"
      [] OTHER -> "commit"

\* the step after the copy-in of table number k
AfterTable(k) == IF k < Len(Tables) THEN Tables[k + 1] ELSE "commit"

\* database.rs:153-157  Self::copy_data(&transaction, table, &lines).await?
\* an error returns from insert_blocks, which drops the transaction: it
\* rolls back
D_Copy ==
    /\ program = "database"
    /\ \E k \in 1..Len(Tables), ok \in BOOLEAN :
         /\ dpc = Tables[k]
         /\ LET rows == {lines[Tables[k]][j] : j \in 1..Len(lines[Tables[k]])}
                c == copy_in(db, dtxn, rows)
            IN IF ok
               THEN /\ db' = c.db /\ dtxn' = c.txn
                    /\ dpc' = AfterTable(k) /\ history' = history
               ELSE /\ db' = db /\ dtxn' = {}
                    /\ dpc' = "idle"
                    /\ history' = Append(history,
                          [rows |-> RowsOfLines(lines), staged |-> dtxn, ok |-> FALSE])
    /\ UNCHANGED <<program, entries, fpc, fpos, fcur, txn, attempted, run, ids, batch,
                   lines>>
    /\ UNCHANGED notLoadVars

\* database.rs:159  transaction.commit().await?
D_Commit ==
    /\ program = "database" /\ dpc = "commit"
    /\ \E ok \in BOOLEAN :
         /\ db' = IF ok THEN db \cup dtxn ELSE db
         /\ history' = Append(history,
               [rows |-> RowsOfLines(lines), staged |-> dtxn, ok |-> ok])
    /\ dtxn' = {}
    /\ dpc' = "idle"
    /\ UNCHANGED <<program, entries, fpc, fpos, fcur, txn, attempted, run, ids, batch,
                   lines>>
    /\ UNCHANGED notLoadVars

DatabaseNext ==
    \/ D_Begin
    \/ D_Build
    \/ D_Copy
    \/ D_Commit

\* ------------------------------------------------------------------------
\* main_concurrency.rs: one task per directory entry, each reading its file
\* and inserting block after block
\* ------------------------------------------------------------------------

\* bb8's default max_size of the pool built by Pool::builder().build(..)
PoolMaxSize == 10

\* the block files of the directory: complete records and a cut-off tail
LoadFiles == {<<<<"A", "E">>, 0>>, <<<<"A", "H">>, 0>>, <<<<"W", "A">>, 0>>,
              <<<<"E">>, 50>>}

\* directory entries: one that is no block file, a block file that cannot
\* be opened, and the block files
EntryChoices ==
    {[blk |-> FALSE, openable |-> TRUE, recs |-> <<"A">>, tail |-> 0],
     [blk |-> TRUE, openable |-> FALSE, recs |-> <<>>, tail |-> 0]}
    \cup {[blk |-> TRUE, openable |-> TRUE, recs |-> lf[1], tail |-> lf[2]] :
             lf \in LoadFiles}

McTables == <<"blocks", "transactions", "inputs", "outputs">>

\* the steps of insert_block
InsertPcs == {"get", "begin", "commit"} \cup {McTables[k] : k \in 1..Len(McTables)}

\* the rows insert_block copies into a table for the block of item it,
\* read by the task of entry f
McRows(f, it, table) ==
    LET b == it.block
        src == <<f, it.rec>>
        txs == b.transactions
    IN CASE table = "blocks" -> {Row("blocks", 0, <<b.block_hash>>, src)}
         [] table = "transactions" ->
              {Row("transactions", 0, <<txs[i].txid>>, src) : i \in 1..Len(txs)}
         [] table = "inputs" ->
              UNION {{Row("inputs", 0, <<txs[i].txid, txs[i].inputs[j].input_index>>, src) :
                         j \in 1..Len(txs[i].inputs)} : i \in 1..Len(txs)}
         [] table = "outputs" ->
              UNION {{Row("outputs", 0, <<txs[i].txid, txs[i].outputs[j].output_index>>, src) :
                         j \in 1..Len(txs[i].outputs)} : i \in 1..Len(txs)}

AllMcRows(f, it) == UNION {McRows(f, it, McTables[k]) : k \in 1..Len(McTables)}

\* a primary key of the schema (main_concurrency.rs:59-97) is violated
Conflicts(rows, others) ==
    \E r \in rows, o \in others : o.table = r.table /\ o.key = r.key

\* the rows staged by the open transactions of the other tasks
StagedByOthers(f) == UNION {txn[g] : g \in Files \ {f}}

ImportInit ==
    /\ program = "main_concurrency"
    /\ entries \in [Files -> EntryChoices]
    /\ fpc = [f \in Files |-> "filter"]
    /\ fpos = [f \in Files |-> 0]
    /\ fcur = [f \in Files |-> NoItem]
    /\ txn = [f \in Files |-> {}]
    /\ attempted = [f \in Files |-> <<>>]
    /\ db = {} /\ history = <<>> /\ run = "running"
    /\ ids = NewIds /\ batch = <<>> /\ lines = NoLines /\ dpc = "off" /\ dtxn = {}

LoadInit == ImportInit \/ DatabaseInit

Running == program = "main_concurrency" /\ run = "running"

\* main_concurrency.rs:37-38  the name filter
M_Filter ==
    /\ Running
    /\ \E f \in Files :
         /\ fpc[f] = "filter"
         /\ fpc' = [fpc EXCEPT ![f] = IF entries[f].blk THEN "open" ELSE "done"]
    /\ UNCHANGED <<program, entries, fpos, fcur, txn, db, attempted, history, run,
                   ids, batch, lines, dpc, dtxn>>
    /\ UNCHANGED notLoadVars

\* main_concurrency.rs:106  File::open(&path)?  the error is logged by main
M_Open ==
    /\ Running
    /\ \E f \in Files :
         /\ fpc[f] = "open"
         /\ fpc' = [fpc EXCEPT ![f] = IF entries[f].openable THEN "read" ELSE "done"]
    /\ UNCHANGED <<program, entries, fpos, fcur, txn, db, attempted, history, run,
                   ids, batch, lines, dpc, dtxn>>
    /\ UNCHANGED notLoadVars

\* main_concurrency.rs:109-111  `while let Ok(block) = read_block(..)` and
\* the call of insert_block; a panic of read_block unwinds through
\* for_each_concurrent and main
M_Read ==
    /\ Running
    /\ \E f \in Files :
         /\ fpc[f] = "read"
         /\ \E e \in {entries[f]} :
            \E r \in {read_block("main_concurrency", FileOf(e.recs, e.tail), fpos[f])} :
               CASE r.st = "Ok" ->
                      /\ fcur' = [fcur EXCEPT
                            ![f] = [rec |-> RecordAt(e.recs, e.tail, fpos[f]),
                                    block |-> r.val]]
                      /\ attempted' = [attempted EXCEPT
                            ![f] = Append(@, RecordAt(e.recs, e.tail, fpos[f]))]
                      /\ fpos' = [fpos EXCEPT ![f] = r.pos]
                      /\ fpc' = [fpc EXCEPT ![f] = "get"]
                      /\ run' = run
                 [] r.st = "Err" ->
                      /\ fpc' = [fpc EXCEPT ![f] = "done"]
                      /\ UNCHANGED <<fcur, attempted, fpos, run>>
                 [] OTHER ->
                      /\ fpc' = [fpc EXCEPT ![f] = "panicked"]
                      /\ run' = "panicked"
                      /\ UNCHANGED <<fcur, attempted, fpos>>
    /\ UNCHANGED <<program, entries, txn, db, history, ids, batch, lines, dpc, dtxn>>
    /\ UNCHANGED notLoadVars

\* the loop ends at the first insert that fails
AbandonAfterFailure(ok) == IF ok THEN "read" ELSE "done"

\* main_concurrency.rs:111-117  whether insert_block returned Ok or Err
\* (logged), the while loop goes on to the next read_block
AfterInsert(ok) == "read"

\* insert_block has returned for the task of entry f: the transaction, if
\* not committed, is dropped and rolls back
Returned(f, ok) ==
    /\ history' = Append(history,
          [rows |-> AllMcRows(f, fcur[f]), staged |-> txn[f], ok |-> ok])
    /\ txn' = [txn EXCEPT ![f] = {}]
    /\ fcur' = [fcur EXCEPT ![f] = NoItem]
    /\ fpc' = [fpc EXCEPT ![f] = AfterInsert(ok)]

\* connections of the pool that are checked out
InUse == Cardinality({f \in Files : fpc[f] \in InsertPcs \ {"get"}})

\* main_concurrency.rs:335  pool.get().await?
M_Get ==
    /\ Running
    /\ \E f \in Files, ok \in BOOLEAN :
         /\ fpc[f] = "get"
         /\ IF ok
            THEN /\ InUse < PoolMaxSize
                 /\ fpc' = [fpc EXCEPT ![f] = "begin"]
                 /\ UNCHANGED <<history, txn, fcur>>
            ELSE Returned(f, FALSE)
    /\ db' = db
    /\ UNCHANGED <<program, entries, fpos, attempted, run, ids, batch, lines, dpc, dtxn>>
    /\ UNCHANGED notLoadVars

\* main_concurrency.rs:336  conn.transaction().await?
M_Begin ==
    /\ Running
    /\ \E f \in Files, ok \in BOOLEAN :
         /\ fpc[f] = "begin"
         /\ IF ok
            THEN /\ fpc' = [fpc EXCEPT ![f] = McTables[1]]
                 /\ UNCHANGED <<history, txn, fcur>>
            ELSE Returned(f, FALSE)
    /\ db' = db
    /\ UNCHANGED <<program, entries, fpos, attempted, run, ids, batch, lines, dpc, dtxn>>
    /\ UNCHANGED notLoadVars

\* the step after the copy-in of table number k
AfterMcTable(k) == IF k < Len(McTables) THEN McTables[k + 1] ELSE "commit"

\* main_concurrency.rs:339-370  one copy-in: copy_in, the lines, close.  It
\* succeeds only if no primary key is violated, and waits for the open
\* transactions that hold a row with the same key.
M_Copy ==
    /\ Running
    /\ \E f \in Files, k \in 1..Len(McTables), ok \in BOOLEAN :
         /\ fpc[f] = McTables[k]
         /\ LET rows == McRows(f, fcur[f], McTables[k])
                c == copy_in(db, txn[f], rows)
            IN IF ok
               THEN /\ ~Conflicts(rows, db \cup StagedByOthers(f))
                    /\ db' = c.db
                    /\ txn' = [txn EXCEPT ![f] = c.txn]
                    /\ fpc' = [fpc EXCEPT ![f] = AfterMcTable(k)]
                    /\ UNCHANGED <<history, fcur>>
               ELSE db' = db /\ Returned(f, FALSE)
    /\ UNCHANGED <<program, entries, fpos, attempted, run, ids, batch, lines, dpc, dtxn>>
    /\ UNCHANGED notLoadVars

\* main_concurrency.rs:372  transaction.commit().await?
M_Commit ==
    /\ Running
    /\ \E f \in Files, ok \in BOOLEAN :
         /\ fpc[f] = "commit"
         /\ db' = IF ok THEN db \cup txn[f] ELSE db
         /\ Returned(f, ok)
    /\ UNCHANGED <<program, entries, fpos, attempted, run, ids, batch, lines, dpc, dtxn>>
    /\ UNCHANGED notLoadVars

\* main_concurrency.rs:46-49  for_each_concurrent is over when every task
\* is; main prints and returns Ok(())
M_Finish ==
    /\ Running
    /\ \A f \in Files : fpc[f] = "done"
    /\ run' = "finished"
    /\ UNCHANGED <<program, entries, fpc, fpos, fcur, txn, db, attempted, history,
                   ids, batch, lines, dpc, dtxn>>
    /\ UNCHANGED notLoadVars

LoadNext ==
    \/ D_Begin
    \/ D_Build
    \/ D_Copy
    \/ D_Commit
    \/ M_Filter
    \/ M_Open
    \/ M_Read
    \/ M_Get
    \/ M_Begin
    \/ M_Copy
    \/ M_Commit
    \/ M_Finish

\* ------------------------------------------------------------------------
\* Specifications
\* ------------------------------------------------------------------------

\* ------------------------------------------------------------------------
\* main.rs: sync_blockchain, keep_up_to_date and handle_reorg against the
\* node's block tree
\* ------------------------------------------------------------------------

\* the blocks the node knows: 1 is the genesis block, 3 and 4 are two
\* children of 2, 6 is a second child of 1
MaxBlock == 6

NodeBlocks == 1..MaxBlock

\* previousblockhash of every block; 0 stands for none (unwrap_or_default:
\* the empty string)
Parent(b) ==
    CASE b = 1 -> 0
      [] b = 2 -> 1
      [] b = 3 -> 2
      [] b = 4 -> 2
      [] b = 5 -> 4
      [] OTHER -> 1

\* the chain from block b back to the genesis block
RECURSIVE ChainOf(_)
ChainOf(b) == IF b = 0 THEN {} ELSE {b} \cup ChainOf(Parent(b))

NoBlocks == [b \in {} |-> TRUE]

LiveIdle ==
    /\ lpc = "off" /\ cursor = 0 /\ new_tip = 0 /\ lblocks = NoBlocks /\ ltxs = {}
    /\ before = NoBlocks

\* main.rs:75-78  setup_database has dropped and created the tables
LiveInit ==
    /\ lpc = "start" /\ cursor = 0 /\ new_tip = 0 /\ lblocks = NoBlocks /\ ltxs = {}
    /\ before = NoBlocks

\* SELECT block_hash FROM blocks WHERE block_hash = $1 AND active = TRUE
\* returns a row
StoredActive(b) == b \in DOMAIN lblocks /\ lblocks[b]

\* main.rs:279-299  INSERT .. ON CONFLICT (block_hash) DO NOTHING
store_block(table, b, active) ==
    IF b \in DOMAIN table THEN table ELSE (b :> active) @@ table

\* main.rs:384  UPDATE blocks SET active = FALSE WHERE block_hash = $1
deactivate(table, b) ==
    [h \in DOMAIN table |-> IF h = b THEN FALSE ELSE table[h]]

\* main.rs:80-82  fetch_best_block_hash, then sync_blockchain from the
\* node's best block; when the fetch fails main ends
L_Start ==
    /\ lpc = "start"
    /\ \E ok \in BOOLEAN, t \in NodeBlocks :
         IF ok THEN cursor' = t /\ lpc' = "sync_block"
         ELSE cursor' = cursor /\ lpc' = "ended"
    /\ UNCHANGED <<new_tip, lblocks, ltxs, before>>
    /\ UNCHANGED notLiveVars

\* main.rs:212-223  one turn of the loop of sync_blockchain: fetch_block
\* and store_block(client, &block, true), on the bare connection.  An Err
\* of sync_blockchain is printed by main, which goes on to keep_up_to_date.
L_SyncBlock ==
    /\ lpc = "sync_block"
    /\ IF cursor = 0
       THEN lpc' = "poll" /\ UNCHANGED <<lblocks, cursor>>
       ELSE \E ok \in BOOLEAN :
              IF ok
              THEN /\ lblocks' = store_block(lblocks, cursor, TRUE)
                   /\ lpc' = "sync_tx" /\ cursor' = cursor
              ELSE lpc' = "poll" /\ UNCHANGED <<lblocks, cursor>>
    /\ UNCHANGED <<new_tip, ltxs, before>>
    /\ UNCHANGED notLiveVars

\* main.rs:231-273  the transactions of the block are fetched and copied
\* into the transactions table in one database transaction; a txid that is
\* stored already violates the primary key
L_SyncTx ==
    /\ lpc = "sync_tx"
    /\ \E ok \in BOOLEAN :
         IF ok /\ cursor \notin ltxs
         THEN /\ ltxs' = ltxs \cup {cursor}
              /\ cursor' = Parent(cursor)
              /\ lpc' = "sync_block"
         ELSE lpc' = "poll" /\ UNCHANGED <<ltxs, cursor>>
    /\ UNCHANGED <<new_tip, lblocks, before>>
    /\ UNCHANGED notLiveVars

\* main.rs:350-372  one turn of keep_up_to_date: the node's best block is
\* fetched; handle_reorg is called unless it is stored as active
L_Poll ==
    /\ lpc = "poll"
    /\ \E ok \in BOOLEAN, t \in NodeBlocks :
         IF ~ok THEN lpc' = "ended" /\ UNCHANGED <<cursor, new_tip, before>>
         ELSE IF StoredActive(t)
         THEN lpc' = "poll" /\ UNCHANGED <<cursor, new_tip, before>>
         ELSE /\ lpc' = "deactivate"
              /\ cursor' = t /\ new_tip' = t /\ before' = lblocks
    /\ UNCHANGED <<lblocks, ltxs>>
    /\ UNCHANGED notLiveVars

\* main.rs:379-390  one turn of the first loop of handle_reorg: while the
\* block is not stored as active, it is fetched (the empty hash cannot be),
\* set inactive, and the loop goes to its parent
L_Deactivate ==
    /\ lpc = "deactivate"
    /\ IF StoredActive(cursor)
       THEN lpc' = "activate" /\ cursor' = new_tip /\ lblocks' = lblocks
       ELSE \E ok \in BOOLEAN :
              IF ok /\ cursor # 0
              THEN /\ lblocks' = deactivate(lblocks, cursor)
                   /\ cursor' = Parent(cursor)
                   /\ lpc' = "deactivate"
              ELSE lpc' = "ended" /\ UNCHANGED <<lblocks, cursor>>
    /\ UNCHANGED <<new_tip, ltxs, before>>
    /\ UNCHANGED notLiveVars

\* main.rs:393-403  one turn of the second loop: fetch_block and
\* store_block(client, &block, true); the loop ends at the empty hash and
\* handle_reorg returns Ok(())
L_Activate ==
    /\ lpc = "activate"
    /\ IF cursor = 0
       THEN lpc' = "reorged" /\ UNCHANGED <<lblocks, cursor>>
       ELSE \E ok \in BOOLEAN :
              IF ok
              THEN /\ lblocks' = store_block(lblocks, cursor, TRUE)
                   /\ lpc' = "activate_tx" /\ cursor' = cursor
              ELSE lpc' = "ended" /\ UNCHANGED <<lblocks, cursor>>
    /\ UNCHANGED <<new_tip, ltxs, before>>
    /\ UNCHANGED notLiveVars

\* main.rs:405-443  the transactions, inputs and outputs of the block are
\* fetched and copied in one database transaction
L_ActivateTx ==
    /\ lpc = "activate_tx"
    /\ \E ok \in BOOLEAN :
         IF ok /\ cursor \notin ltxs
         THEN /\ ltxs' = ltxs \cup {cursor}
              /\ cursor' = Parent(cursor)
              /\ lpc' = "activate"
         ELSE lpc' = "ended" /\ UNCHANGED <<ltxs, cursor>>
    /\ UNCHANGED <<new_tip, lblocks, before>>
    /\ UNCHANGED notLiveVars

\* main.rs:370  sleep(Duration::from_secs(10)) after handle_reorg
L_Sleep ==
    /\ lpc = "reorged"
    /\ lpc' = "poll"
    /\ UNCHANGED <<cursor, new_tip, lblocks, ltxs, before>>
    /\ UNCHANGED notLiveVars

LiveNext ==
    \/ L_Start
    \/ L_SyncBlock
    \/ L_SyncTx
    \/ L_Poll
    \/ L_Deactivate
    \/ L_Activate
    \/ L_ActivateTx
    \/ L_Sleep

\* the decimal digits of a number above zero, high digit first
RECURSIVE DecimalDigits(_)
DecimalDigits(n) == IF n = 0 THEN <<>> ELSE Append(DecimalDigits(n \div 10), n % 10)

\* format!("{}", n) of an i32: a minus sign for a negative number
display_i32(n) ==
    IF n = 0 THEN <<0>>
    ELSE IF n < 0 THEN <<"-">> \o DecimalDigits(0 - n)
    ELSE DecimalDigits(n)

\* database.rs:119-124  the line of the inputs table for one input (id and
\* txid left out)
input_line(input) ==
    [input_index |-> display_i32(input.input_index),
     previous_txid |-> input.previous_txid,
     previous_output_index |-> display_i32(input.previous_output_index),
     script_sig |-> input.script_sig,
     sequence |-> input.sequence]

\* ------------------------------------------------------------------------
\* Functions of utils.rs applied to one argument
\* ------------------------------------------------------------------------

CalcIdle == calc = "none" /\ arg = <<>> /\ cpc = "idle" /\ ret = <<>>

\* u64 values around the limits of the encodings
VarIntValues ==
    { <<0, 0, 0, 0>>, <<1, 0, 0, 0>>, <<252, 0, 0, 0>>, <<253, 0, 0, 0>>,
      <<254, 0, 0, 0>>, <<255, 0, 0, 0>>, <<256, 0, 0, 0>>, <<65535, 0, 0, 0>>,
      <<0, 1, 0, 0>>, <<1, 1, 0, 0>>, <<65535, 65535, 0, 0>>, <<65534, 65535, 0, 0>>,
      <<0, 0, 1, 0>>, <<1, 0, 1, 0>>, <<0, 0, 0, 32768>>,
      <<65535, 65535, 65535, 65535>> }

\* bytes that follow the encoding in the file
Trailers == {<<>>, <<0>>, <<253>>, <<255, 255>>}

LimbBytes(x) == <<x % 256, x \div 256>>

\* the canonical encoding of a u64: the shortest of the four forms
CanonicalVarInt(n) ==
    IF n[2] = 0 /\ n[3] = 0 /\ n[4] = 0
    THEN (IF n[1] <= 252 THEN <<n[1]>> ELSE <<253>> \o LimbBytes(n[1]))
    ELSE IF n[3] = 0 /\ n[4] = 0
    THEN <<254>> \o LimbBytes(n[1]) \o LimbBytes(n[2])
    ELSE <<255>> \o LimbBytes(n[1]) \o LimbBytes(n[2])
                 \o LimbBytes(n[3]) \o LimbBytes(n[4])

VarIntInit ==
    /\ calc = "varint"
    /\ arg \in [n : VarIntValues, rest : Trailers]
    /\ cpc = "read" /\ ret = <<>>

\* read_var_int on a reader positioned at the encoding of arg.n
V_ReadVarInt ==
    /\ calc = "varint" /\ cpc = "read"
    /\ ret' = [decoded |-> read_var_int(CanonicalVarInt(arg.n) \o arg.rest, 0)]
    /\ cpc' = "size"
    /\ UNCHANGED <<calc, arg>>
    /\ UNCHANGED notCalcVars

\* varint_size of the value
V_VarintSize ==
    /\ calc = "varint" /\ cpc = "size"
    /\ ret' = [decoded |-> ret.decoded, size |-> varint_size(arg.n)]
    /\ cpc' = "done"
    /\ UNCHANGED <<calc, arg>>
    /\ UNCHANGED notCalcVars

\* num_bigint::BigUint: base-256 digits, low digit first, no high zeros
RECURSIVE BigNorm(_)
BigNorm(a) ==
    IF a # <<>> /\ a[Len(a)] = 0 THEN BigNorm(SubSeq(a, 1, Len(a) - 1)) ELSE a

\* BigUint::from_u32 of a number below 2^24
BigFromU32(n) == BigNorm(<<n % 256, (n \div 256) % 256, n \div 65536>>)

\* the sum of f[lo..hi], by halves
RECURSIVE RangeSum(_, _, _)
RangeSum(f, lo, hi) ==
    IF lo > hi THEN 0
    ELSE IF lo = hi THEN f[lo]
    ELSE RangeSum(f, lo, (lo + hi) \div 2) + RangeSum(f, (lo + hi) \div 2 + 1, hi)

\* the carries of every digit moved one place up, until no digit is above
\* 255
RECURSIVE BigCarry(_)
BigCarry(d) ==
    IF \A k \in DOMAIN d : d[k] < 256 THEN d
    ELSE BigCarry(Tup([k \in 1..(Len(d) + 1) |->
                         (IF k <= Len(d) THEN d[k] % 256 ELSE 0)
                         + (IF k > 1 THEN d[k - 1] \div 256 ELSE 0)], Len(d) + 1))

\* a.checked_mul(&b): a BigUint does not overflow.  The digit products are
\* summed by place, then the carries are propagated.
BigMul(a, b) ==
    IF a = <<>> \/ b = <<>> THEN <<>>
    ELSE BigNorm(BigCarry(Tup([k \in 1..(Len(a) + Len(b) - 1) |->
            RangeSum([i \in 1..Len(a) |->
                        IF k + 1 - i \in 1..Len(b) THEN a[i] * b[k + 1 - i] ELSE 0],
                     1, Len(a))], Len(a) + Len(b) - 1)))

\* base.pow(e), by squaring
RECURSIVE BigPow(_, _)
BigPow(base, e) ==
    IF e = 0 THEN <<1>>
    ELSE IF e % 2 = 1 THEN BigMul(BigPow(base, e - 1), base)
    ELSE BigMul(BigPow(base, e \div 2), BigPow(base, e \div 2))

\* exp.saturating_sub(3): no underflow is reported
saturating_sub(a, b) == [st |-> "Ok", val |-> IF a < b THEN 0 ELSE a - b]

\* utils.rs:212  exp.checked_sub(3).ok_or("Exponent underflow")
checked_sub(a, b) == IF a < b THEN [st |-> "Err"] ELSE [st |-> "Ok", val |-> a - b]

\* utils.rs:213-222  the targets, and the quotient as the exact fraction
\* num / den (the f64 division rounds it)
difficulty_of(coef, exp) ==
    IF exp.st # "Ok" THEN [st |-> "Err"]
    ELSE [st |-> "Ok",
          num |-> BigMul(BigFromU32(65535), BigPow(BigFromU32(256), 29 - 3)),
          den |-> BigMul(BigFromU32(coef), BigPow(BigFromU32(256), exp.val))]

\* utils.rs:204-223
calculate_block_difficulty(bits_str) ==
    difficulty_of(65536 * (from_str_radix(bits_str)[2] % 256) + from_str_radix(bits_str)[1],
                  checked_sub(from_str_radix(bits_str)[2] \div 256, 3))

\* exponents and coefficients of the compact targets tried
BitsExps == {0, 1, 2, 3, 4, 5, 27, 28, 29, 30, 32}
BitsCoefs == {0, 1, 65535, 263371, 8388607, 16776960}

\* the u32 with exponent e and coefficient c
BitsOf(e, c) == <<c % 65536, 256 * e + c \div 65536>>

DifficultyInit ==
    /\ calc = "difficulty"
    /\ arg \in {[exp |-> e, coef |-> c, bits |-> format_x(BitsOf(e, c))] :
                   e \in BitsExps, c \in BitsCoefs}
    /\ cpc = "call" /\ ret = <<>>

K_Difficulty ==
    /\ calc = "difficulty" /\ cpc = "call"
    /\ ret' = calculate_block_difficulty(arg.bits)
    /\ cpc' = "done"
    /\ UNCHANGED <<calc, arg>>
    /\ UNCHANGED notCalcVars

\* a script of 127 bytes: its hex form has 254 digits
Script127 == Tup([i \in 1..127 |-> i], 127)

LongIn == [SpendIn EXCEPT !.len = <<127>>, !.script = Script127]

OutLong == [value |-> <<2, 0, 0, 0, 0, 0, 0, 0>>, script |-> Script127]

\* serialized transactions: legacy and SegWit, with one, two and no inputs,
\* with short and long scripts, and damaged ones
TxSamples ==
    { LegacyTx,
      [LegacyTx EXCEPT !.inputs = <<SpendIn, CoinbaseIn>>, !.outputs = <<Out1, Out50>>],
      [LegacyTx EXCEPT !.inputs = <<LongIn>>],
      [LegacyTx EXCEPT !.outputs = <<OutLong>>],
      [LegacyTx EXCEPT !.inputs = <<>>],
      SegwitTx,
      [SegwitTx EXCEPT !.inputs = <<SpendIn, CoinbaseIn>>,
                       !.stacks = << <<<<48, 1>>, <<2>>>>, <<>> >>],
      [SegwitTx EXCEPT !.inputs = <<>>, !.stacks = <<>>],
      BadFlagTx,
      HugeScriptTx,
      WitnessOverflowTx }

\* how much of the serialization the file holds: all of it, or its first
\* 5 or 20 bytes
TxCuts == {0, 5, 20}

TxInit ==
    /\ calc = "transaction"
    /\ arg \in {[v |-> v, tx |-> t,
                  bytes |-> IF c = 0 THEN TxRaw(t) ELSE SubSeq(TxRaw(t), 1, c)] :
                    v \in {"utils", "file_reader"}, t \in TxSamples, c \in TxCuts}
    /\ cpc = "read" /\ ret = <<>>

\* read_transaction on a reader positioned at the transaction
T_ReadTransaction ==
    /\ calc = "transaction" /\ cpc = "read"
    /\ ret' = [read |-> read_transaction(arg.v, arg.bytes, 0, <<>>), size |-> 0]
    /\ cpc' = "size"
    /\ UNCHANGED <<calc, arg>>
    /\ UNCHANGED notCalcVars

\* calculate_tx on the transaction decoded
T_CalculateTx ==
    /\ calc = "transaction" /\ cpc = "size"
    /\ ret' = [ret EXCEPT !.size = IF ret.read.st = "Ok"
                                   THEN calculate_tx(arg.v, ret.read.val).size
                                   ELSE 0]
    /\ cpc' = "done"
    /\ UNCHANGED <<calc, arg>>
    /\ UNCHANGED notCalcVars

CalcNext ==
    \/ V_ReadVarInt
    \/ V_VarintSize
    \/ K_Difficulty
    \/ T_ReadTransaction
    \/ T_CalculateTx

InitCalc ==
    /\ ReadIdle /\ HashIdle /\ LoadIdle /\ LiveIdle
    /\ (VarIntInit \/ DifficultyInit \/ TxInit)

SpecCalc == InitCalc /\ [][CalcNext]_vars

InitRead == ReadInit /\ HashIdle /\ LoadIdle /\ CalcIdle /\ LiveIdle
InitHash == ReadIdle /\ HashInit /\ LoadIdle /\ CalcIdle /\ LiveIdle
InitLoad == ReadIdle /\ HashIdle /\ LoadInit /\ CalcIdle /\ LiveIdle
InitLive == ReadIdle /\ HashIdle /\ LoadIdle /\ CalcIdle /\ LiveInit

SpecRead == InitRead /\ [][ReadNext]_vars

SpecHash == InitHash /\ [][HashNext]_vars

SpecLoad == InitLoad /\ [][LoadNext]_vars

InitDatabase ==
    ReadIdle /\ HashIdle /\ CalcIdle /\ LiveIdle /\ (DatabaseInit \/ DatabaseLate)

SpecDatabase == InitDatabase /\ [][DatabaseNext]_vars

\* one call of insert_blocks, over every batch
InitBatch == ReadIdle /\ HashIdle /\ CalcIdle /\ LiveIdle /\ DatabaseLastCall

SpecBatch == InitBatch /\ [][DatabaseNext]_vars

\* the consumer is scheduled fairly: a receive or an exit that stays
\* possible is taken
SpecDrain == InitRead /\ [][DrainNext]_vars /\ WF_vars(Recv) /\ WF_vars(RxExit)

SpecLive == InitLive /\ [][LiveNext]_vars

\* ------------------------------------------------------------------------
\* Properties of the reader stage (SpecRead)
\* ------------------------------------------------------------------------

\* what the stage has handed downstream: the items sent on the channel by
\* process_file, the vector FileReader::process_file builds
Emitted == IF stage = "processing" THEN sent ELSE blocks

\* the number of records of the file that decode before the first damaged
\* record, the cut-off tail or the end of the file
GoodPrefix == IF FirstBad(recs, tail) > Len(recs) THEN Len(recs)
              ELSE FirstBad(recs, tail) - 1

\* the file ends on a record boundary and none of its records is damaged
CleanEnd == tail = 0 /\ FirstBad(recs, tail) > Len(recs)

\* C1: the blocks handed downstream (sent on the channel by process_file,
\* pushed to the vector by FileReader::process_file) are in the order of
\* their records in the file: of two emitted blocks, the one whose record
\* comes first in the file is emitted first.
C1_FileOrder ==
    \A i, j \in DOMAIN Emitted :
        i < j => (Emitted[i].rec > 0 /\ Emitted[i].rec < Emitted[j].rec)

\* FileReader::process_file has returned the blocks of two records
C1_Witness ==
    /\ stage = "file_reader" /\ pc = "done" /\ result = "Ok"
    /\ Len(blocks) = 2 /\ blocks[1].rec = 1 /\ blocks[2].rec = 2

\* C5: a file that ends on a record boundary ends with success, a file that
\* ends inside a record or breaks a length bound ends with a failure: the
\* result of the file-processing operation tells the two apart.
C5_EndsDistinguishable ==
    (pc = "done" /\ openable /\ result # "Panic") => (result = "Ok" <=> CleanEnd)

\* C6: when record k of a file fails to decode, process_file sends exactly
\* the blocks of records 1..k-1, in file order, and nothing built from
\* record k or from a later byte of the file.
C6_PrefixBeforeFailure ==
    stage = "processing" =>
        /\ Len(sent) <= GoodPrefix
        /\ \A i \in DOMAIN sent :
              /\ sent[i].rec = i
              /\ sent[i].block = read_block("utils", Record(recs[i]), 0).val
        /\ (pc = "done" /\ cur = NoItem /\ openable) => Len(sent) = GoodPrefix

\* the second record has the SegWit marker followed by the flag byte 2 and a
\* third record follows it: only the block of the first record was sent
C6_Witness ==
    /\ stage = "processing" /\ pc = "done" /\ result = "Ok"
    /\ Len(recs) >= 2 /\ recs[1] \in GoodKinds /\ recs[2] = "W"
    /\ Len(sent) = 1 /\ sent[1].rec = 1

\* ------------------------------------------------------------------------
\* Properties of the hasher (SpecHash)
\* ------------------------------------------------------------------------

\* C9: after process_block, block.size is 80 plus the sum of the size fields
\* stored on the block's transactions.
C9_SizeConsistency ==
    (variant = "file_reader" /\ hpc = "done") =>
        block.size = 80 + SumSeq([i \in 1..Len(block.transactions) |->
                                     block.transactions[i].size])

\* process_block has processed a block of two transactions, one of them
\* with witness data
C9_Witness ==
    /\ variant = "file_reader" /\ hpc = "done"
    /\ Len(block.transactions) = 2
    /\ block.transactions[2].witness.some
    /\ block.size > 80

\* C10: the 80 bytes calculate_block_hash feeds to the first SHA-256 are the
\* 80 header bytes of the record, for each reader with the hasher that
\* consumes its blocks.
C10_HeaderRoundTrip == hpc = "done" => fed = HeaderOf(record)

\* ------------------------------------------------------------------------
\* Properties of the loaders (SpecLoad)
\* ------------------------------------------------------------------------

\* insert tasks that have entered insert_block and have neither committed
\* nor failed
InsertsInProgress == Cardinality({f \in DOMAIN fpc : fpc[f] \in InsertPcs})

\* a permit count below the number of block files of the directory
InsertPermits == NumFiles - 1

\* C2: at every point of a run the number of block inserts in progress is at
\* most the permit count K of the insert semaphore, whatever the number of
\* block files.
C2_BoundedInserts == InsertsInProgress <= InsertPermits

\* C3: a bulk insert is atomic: after insert_blocks / insert_block has
\* failed in a copy-in or in the commit none of its rows is visible, after
\* it has succeeded all of them are.
C3_AtomicInsert ==
    \A i \in DOMAIN history :
        IF history[i].ok THEN history[i].rows \subseteq db
        ELSE history[i].rows \cap db = {}

\* an insert failed after at least one copy-in had succeeded, and another
\* insert was committed
C3_Witness ==
    /\ \E i \in DOMAIN history : ~history[i].ok /\ history[i].staged # {}
    /\ \E i \in DOMAIN history : history[i].ok /\ history[i].rows # {}

\* the blocks of the batch that hold a transaction with txid t
BlocksWith(t) ==
    {n \in DOMAIN batch :
        \E k \in DOMAIN batch[n].transactions : batch[n].transactions[k].txid = t}

\* the lines built for the transactions table that carry txid t
LinesWith(t) ==
    {j \in DOMAIN lines["transactions"] : lines["transactions"][j].key[1] = t}

\* C4: when a batch holds one of the two BIP30-duplicate txids in two
\* different blocks, exactly one line for that txid is built for the
\* transactions table: that of the first block.
C4_Bip30ExactlyOne ==
    (program = "database" /\ dpc \notin {"idle", "build"}) =>
        \A t \in bip30_conflicts :
            Cardinality(BlocksWith(t)) >= 2 =>
                /\ Cardinality(LinesWith(t)) = 1
                /\ \A j \in LinesWith(t) :
                      lines["transactions"][j].key[2] = batch[1].block_hash

\* C7: a failure while opening or decoding one block file never stops the
\* run: no block file is left unprocessed by a run that has stopped.
C7_RunNeverStops ==
    ~(/\ run = "panicked"
      /\ \E g \in DOMAIN fpc : entries[g].blk /\ fpc[g] \notin {"done", "panicked"})

\* the number of records of the file of entry e that main_concurrency.rs
\* decodes before the first it fails on
GoodPrefixFor(e) ==
    IF FirstBadFor("main_concurrency", e.recs, e.tail) > Len(e.recs) THEN Len(e.recs)
    ELSE FirstBadFor("main_concurrency", e.recs, e.tail) - 1

\* C8: a block whose insert fails is dropped and not retried (insert_block
\* is called once for it and returns once), and the next block of the file
\* is still read and its insert attempted: a task that has ended has
\* attempted every block its file decodes to, each once.
C8_DroppedNotRetried ==
    program = "main_concurrency" =>
        /\ \A i, j \in DOMAIN history :
              i # j => history[i].rows \cap history[j].rows = {}
        /\ \A f \in DOMAIN fpc :
              /\ \A i \in DOMAIN attempted[f] : attempted[f][i] = i
              /\ (fpc[f] = "done" /\ entries[f].blk /\ entries[f].openable) =>
                    Len(attempted[f]) = GoodPrefixFor(entries[f])

\* the insert of the first block of a file failed and the insert of its
\* second block was committed
C8_Witness ==
    \E f \in DOMAIN fpc :
        /\ fpc[f] = "done" /\ attempted[f] = <<1, 2>>
        /\ \E i \in DOMAIN history :
              ~history[i].ok /\ \E r \in history[i].rows : r.src = <<f, 1>>
        /\ \E i \in DOMAIN history :
              history[i].ok /\ \E r \in history[i].rows : r.src = <<f, 2>>

\* C11: when the previous-block field of the second of two consecutive
\* records is the double SHA-256 of the first record's header, the
\* previous_block of the second decoded block equals the block_hash computed
\* for the first: the identifiers are held in one byte order.
C11_ChainLink == hpc = "linked" => successor.previous_block = block.block_hash

\* witness data a transaction may carry: none, an empty stack, two fields
WitnessChoices ==
    {NoWitness,
     [some |-> TRUE, stacks |-> << <<>> >>],
     [some |-> TRUE, stacks |-> << << <<48, 1>>, <<2>> >> >>]}

\* C12: the txid is a function of version, inputs, outputs and locktime
\* only: the txid stored on a transaction is the txid calculate_tx gives for
\* the same transaction with any other witness data, or none, and a second
\* decode of the record gives the same txids.
C12_TxidIgnoresWitness ==
    (hpc \in {"done", "linked"} /\ variant # "main_concurrency") =>
        /\ \A i \in DOMAIN block.transactions : \A w \in WitnessChoices :
              calculate_tx(variant, [block.transactions[i] EXCEPT !.witness = w]).txid
                  = block.transactions[i].txid
        /\ \A i \in DOMAIN block.transactions :
              calculate_tx(variant, read_block(variant, record, 0).val.transactions[i]).txid
                  = block.transactions[i].txid

\* a block with a SegWit transaction has been hashed
C12_Witness ==
    /\ hpc = "done" /\ variant \in {"utils", "file_reader"}
    /\ Len(block.transactions) = 2
    /\ block.transactions[2].witness.some
    /\ block.transactions[2].witness.stacks # <<>>
    /\ block.transactions[2].txid # <<>>

\* C13: the size calculate_tx returns for a SegWit transaction, stored on
\* the transaction, leaves the witness out: it is the size computed for the
\* same transaction with its witness removed.
C13_SizeExcludesWitness ==
    (hpc \in {"done", "linked"} /\ variant # "main_concurrency") =>
        \A i \in DOMAIN block.transactions :
            block.transactions[i].witness.some =>
                block.transactions[i].size
                  = calculate_tx(variant,
                        [block.transactions[i] EXCEPT !.witness = NoWitness]).size

\* ------------------------------------------------------------------------
\* Properties of the functions of utils.rs (SpecCalc)
\* ------------------------------------------------------------------------

\* C14: read_var_int applied to the canonical encoding of n returns n and
\* consumes exactly varint_size(n) bytes, and varint_size is 1 up to 0xFC,
\* 3 up to 0xFFFF, 5 up to 0xFFFFFFFF and 9 above.
C14_VarintLaw ==
    (calc = "varint" /\ cpc = "done") =>
        /\ ret.decoded.st = "Ok"
        /\ ret.decoded.val = arg.n
        /\ ret.decoded.pos = ret.size
        /\ ret.size = Len(CanonicalVarInt(arg.n))
        /\ ret.size = (IF arg.n[2] = 0 /\ arg.n[3] = 0 /\ arg.n[4] = 0
                       THEN (IF arg.n[1] <= 252 THEN 1 ELSE 3)
                       ELSE IF arg.n[3] = 0 /\ arg.n[4] = 0 THEN 5 ELSE 9)

\* 0x100000000, encoded in nine bytes and followed by other bytes, has
\* been decoded and sized
C14_Witness ==
    /\ calc = "varint" /\ cpc = "done"
    /\ arg.n = <<0, 0, 1, 0>> /\ arg.rest # <<>>
    /\ ret.size = 9

\* the target coef * 256^k written out: k zero digits below the digits of
\* coef
ShiftedTarget(coef, k) ==
    IF coef = 0 THEN <<>> ELSE Zeros(k) \o BigFromU32(coef)

\* C17: calculate_block_difficulty fails when exp < 3, and otherwise
\* returns D1 / target with target = coef * 256^(exp - 3) and
\* D1 = 0xFFFF * 256^(0x1D - 3); for bits = 0x1d00ffff the target is D1 and
\* the difficulty exactly 1.
C17_Difficulty ==
    (calc = "difficulty" /\ cpc = "done") =>
        /\ arg.exp < 3 => ret.st = "Err"
        /\ arg.exp >= 3 =>
              /\ ret.st = "Ok"
              /\ ret.den = ShiftedTarget(arg.coef, arg.exp - 3)
              /\ ret.num = ShiftedTarget(65535, 26)
        /\ (arg.exp = 29 /\ arg.coef = 65535) => ret.num = ret.den

\* the difficulty of bits = 0x1b0404cb has been computed
C17_Witness ==
    /\ calc = "difficulty" /\ cpc = "done"
    /\ arg.bits = <<1, 11, 0, 4, 0, 4, 12, 11>>
    /\ ret.st = "Ok" /\ Len(ret.den) = 27

\* ------------------------------------------------------------------------
\* Further properties of the readers, the hasher and the loaders
\* ------------------------------------------------------------------------

\* the records of a file, as a set of kinds
KindsIn(e) == {e.recs[k] : k \in DOMAIN e.recs}

\* C15: every reader rejects an input or output whose script length is
\* above 1,000,000 with an error before it reads a script byte: the task of
\* main_concurrency.rs that meets such a record ends its file with an error
\* and does not panic.
C15_ScriptLengthRejected ==
    \A f \in DOMAIN fpc : "H" \in KindsIn(entries[f]) => fpc[f] # "panicked"

\* C16: after process_block the difficulty of the block is the difficulty
\* derived from its bits, not the placeholder 0 of the reader.
C16_DifficultySet ==
    (variant = "file_reader" /\ hpc \in {"done", "linked"}) => block.difficulty # 0

\* C19: a coinbase input, whose previous-output index is FF FF FF FF on
\* disk, is written to its inputs row with previous_output_index
\* 4294967295.
C19_CoinbaseIndex ==
    hpc \in {"done", "linked"} =>
        \A i \in DOMAIN block.transactions :
            \A j \in DOMAIN block.transactions[i].inputs :
                I32AsU32(block.transactions[i].inputs[j].previous_output_index)
                        = <<65535, 65535>>
                    => input_line(block.transactions[i].inputs[j]).previous_output_index
                         = <<4, 2, 9, 4, 9, 6, 7, 2, 9, 5>>

\* the file of entry f is being read: opened, and its task neither ended
\* nor unwound
BeingRead(f) == fpc[f] \in InsertPcs \cup {"read"}

\* C18: the block files are fed to the reader one at a time: the read of a
\* file begins only after the read of the file before it has finished, so
\* no two files are being read at once.
C18_OneFileAtATime ==
    \A f, g \in DOMAIN fpc : (BeingRead(f) /\ BeingRead(g)) => f = g

\* ------------------------------------------------------------------------
\* Properties of the live-sync program (SpecLive)
\* ------------------------------------------------------------------------

\* C20: after handle_reorg(new_tip) has returned Ok, every stored block on
\* the chain from new_tip back to the genesis block is active, and every
\* stored block that was active before the call and is not on that chain is
\* inactive.
C20_ReorgActiveChain ==
    lpc = "reorged" =>
        /\ \A b \in DOMAIN lblocks : b \in ChainOf(new_tip) => lblocks[b]
        /\ \A b \in DOMAIN before :
              (before[b] /\ b \notin ChainOf(new_tip)) =>
                  (b \in DOMAIN lblocks /\ ~lblocks[b])

\* ------------------------------------------------------------------------
\* Properties of the channel of the reader stage (SpecRead)
\* ------------------------------------------------------------------------

\* a send that waits at a full channel
SendSuspended ==
    stage = "processing" /\ pc = "send" /\ rxOpen /\ Len(chan) = ChanCap

\* C21: the channel between process_file and its consumer never holds more
\* than its capacity; while it is full the send does not complete (nothing
\* is sent until the consumer has received an item); and as long as the
\* Receiver lives every item sent is either received or in the channel, in
\* the order of the sends: none is dropped or overwritten.
C21_Backpressure ==
    /\ [](/\ Len(chan) <= ChanCap
          /\ (rxOpen => sent = received \o chan))
    /\ [][SendSuspended => (sent' = sent /\ Len(chan') <= Len(chan))]_vars

C21_Witness == SendSuspended /\ cur # NoItem

\* C22: once process_file has ended and its Sender is dropped, the draining
\* consumer observes the closure only after it has received every item that
\* was sent, and under fair scheduling of the consumer it then exits.
C22_DrainThenExit ==
    /\ [](~rxOpen => (sender_dropped /\ received = sent))
    /\ ((stage = "processing" /\ pc = "done") ~> ~rxOpen)

C22_Witness ==
    stage = "processing" /\ pc = "done" /\ ~rxOpen /\ Len(received) = MaxRecords

\* ------------------------------------------------------------------------
\* Properties of Database::insert_blocks (SpecDatabase)
\* ------------------------------------------------------------------------

TableNo(t) == CHOOSE k \in 1..Len(Tables) : Tables[k] = t

\* the rows built for the tables before table number k
RowsBefore(k) == {r \in RowsOfLines(lines) : TableNo(r.table) < k}

\* C23: insert_blocks runs its copy-ins on one transaction in the order
\* blocks, transactions, inputs, outputs, block_transactions: when the sink
\* of a table is about to be opened the transaction holds exactly the rows
\* of the tables before it; a sink stages the rows built for its own table
\* and no others; and rows become visible only by the commit, after the
\* last sink is closed and every row is staged.
C23_SinkOrder ==
    /\ [](/\ \A k \in 1..Len(Tables) : dpc = Tables[k] => dtxn = RowsBefore(k)
          /\ dpc = "commit" => dtxn = RowsOfLines(lines)
          /\ dpc \in {"idle", "build", "panicked"} => dtxn = {})
    /\ [][/\ \A k \in 1..Len(Tables) :
               (dpc = Tables[k] /\ dpc' \notin {dpc, "idle"}) =>
                   /\ dtxn' \ dtxn = {r \in RowsOfLines(lines) : r.table = Tables[k]}
                   /\ dpc' = IF k < Len(Tables) THEN Tables[k + 1] ELSE "commit"
          /\ db' # db => (dpc = "commit" /\ dtxn = RowsOfLines(lines))]_vars

C23_Witness ==
    /\ dpc = "commit"
    /\ \A k \in 1..Len(Tables) : lines[Tables[k]] # <<>>

\* C28: over any sequence of insert_blocks calls on one Database, failed
\* ones included, the ids written for a table strictly increase in the
\* order the lines are built, within a call and from one call to the next,
\* and no id has wrapped past the i32 range (every id is at least 1).
C28_IdsIncrease ==
    /\ \A k \in 1..Len(Tables) : \A i, j \in DOMAIN lines[Tables[k]] :
          i < j => lines[Tables[k]][i].id < lines[Tables[k]][j].id
    /\ \A n, m \in DOMAIN history : \A r \in history[n].rows, q \in history[m].rows :
          (n < m /\ r.table = q.table) => r.id < q.id
    /\ \A r \in RowsOfLines(lines) : r.id >= 1

\* the rows of a table in the lines built, as a set
LineSet(t) == {lines[t][j] : j \in DOMAIN lines[t]}

\* the txids of the batch that are on the suppression list
Suppressed ==
    (UNION {{batch[n].transactions[k].txid : k \in 1..Len(batch[n].transactions)} :
               n \in 1..Len(batch)}) \cap bip30_conflicts

\* (block, transaction) positions of the batch that are not suppressed
Kept ==
    {<<n, k>> \in (1..Len(batch)) \X (1..MaxBatchTxs) :
        /\ k <= Len(batch[n].transactions)
        /\ batch[n].transactions[k].txid \notin bip30_conflicts}

\* insert_blocks has built the lines of its batch
LinesBuilt == program = "database" /\ dpc \notin {"idle", "build", "panicked"}

\* C29: in the lines insert_blocks has built for a batch, every inputs and
\* outputs row carries the txid of a transactions row of the batch; every
\* block_transactions row pairs the id of a blocks row with the id of a
\* transactions row of that block; every block of the batch has its blocks
\* row; and a transaction on the suppression list has no transactions,
\* inputs, outputs or block_transactions row and does not advance tx_id
\* (the build advances tx_id by the number of transactions kept).
C29_BatchReferences ==
    /\ [](LinesBuilt =>
          /\ \A r \in LineSet("inputs") \cup LineSet("outputs") :
                \E t \in LineSet("transactions") : t.key[1] = r.key[1]
          /\ \A bt \in LineSet("block_transactions") :
                \E b \in LineSet("blocks"), t \in LineSet("transactions") :
                   /\ b.id = bt.key[1] /\ t.id = bt.key[2]
                   /\ t.key[2] = b.key[1]
          /\ \A n \in 1..Len(batch) :
                \E b \in LineSet("blocks") : b.key = <<batch[n].block_hash>>
          /\ Len(lines["blocks"]) = Len(batch)
          /\ \A r \in LineSet("transactions") \cup LineSet("inputs")
                          \cup LineSet("outputs") : r.key[1] \notin Suppressed
          /\ Len(lines["transactions"]) = Cardinality(Kept)
          /\ Len(lines["block_transactions"]) = Cardinality(Kept))
    /\ [][(dpc = "build" /\ dpc' = "blocks") =>
             ids'.tx_id = ids.tx_id + Cardinality(Kept)]_vars

C29_Witness ==
    /\ LinesBuilt
    /\ Suppressed # {}
    /\ Kept # {}

\* ------------------------------------------------------------------------
\* Properties of sync_blockchain (SpecLive)
\* ------------------------------------------------------------------------

\* C30: in sync_blockchain the row of a block and the rows of its
\* transactions are committed together: between two blocks of the loop and
\* after sync_blockchain has returned, with Ok or with Err, every block in
\* the blocks table has its transactions in the transactions table.
C30_SyncAtomic ==
    (lpc \in {"sync_block", "poll"} /\ new_tip = 0) => DOMAIN lblocks \subseteq ltxs

\* ------------------------------------------------------------------------
\* Properties of read_transaction and calculate_tx on one transaction
\* (SpecCalc)
\* ------------------------------------------------------------------------

\* a transaction without witness data has been decoded and sized
LegacySized ==
    /\ calc = "transaction" /\ cpc = "done"
    /\ ret.read.st = "Ok" /\ ~ret.read.val.witness.some

\* the number of bytes of the serialization of a transaction without
\* witness data, from the byte lengths of its scripts
SerializedSize(t) ==
    4 + varint_size(UsizeAsU64(Len(t.inputs)))
    + SumSeq([i \in 1..Len(t.inputs) |->
          32 + 4 + varint_size(UsizeAsU64(Len(t.inputs[i].script)))
          + Len(t.inputs[i].script) + 4])
    + varint_size(UsizeAsU64(Len(t.outputs)))
    + SumSeq([i \in 1..Len(t.outputs) |->
          8 + varint_size(UsizeAsU64(Len(t.outputs[i].script)))
          + Len(t.outputs[i].script)])
    + 4

\* C24: for a decoded transaction without witness data the size that
\* calculate_tx returns is 4 + varint_size(in_count) + the sum over the
\* inputs of 32 + 4 + varint_size(ss_len) + ss_len + 4 + varint_size(out_count)
\* + the sum over the outputs of 8 + varint_size(spk_len) + spk_len + 4, with
\* the script lengths in bytes: the number of bytes the transaction occupied
\* in the file.
C24_SizeIsSerializedLength ==
    LegacySized =>
        /\ ret.size = SerializedSize(arg.tx)
        /\ ret.size = ret.read.pos

\* read_transaction has returned
TxRead == calc = "transaction" /\ cpc \in {"size", "done"}

\* C25: read_transaction (utils.rs, file_reader.rs) returns a transaction
\* with witness data exactly when the byte after version is 0x00 and the
\* next one 0x01 (a zero marker with any other flag is an error); a
\* non-zero byte after version is not consumed but read again as in_count;
\* and the witness data holds exactly one stack per input.
C25_WitnessIffMarker ==
    TxRead =>
        /\ ret.read.st = "Ok" =>
              (ret.read.val.witness.some <=> (arg.bytes[5] = 0 /\ arg.bytes[6] = 1))
        /\ (Len(arg.bytes) >= 6 /\ arg.bytes[5] = 0 /\ arg.bytes[6] # 1) =>
              ret.read.st = "Err"
        /\ (ret.read.st = "Ok" /\ arg.bytes[5] # 0) =>
              Len(ret.read.val.inputs) = arg.bytes[5]
        /\ (ret.read.st = "Ok" /\ ret.read.val.witness.some) =>
              Len(ret.read.val.witness.stacks) = Len(ret.read.val.inputs)

\* a SegWit transaction with two inputs has been decoded
C25_Witness ==
    /\ TxRead /\ ret.read.st = "Ok"
    /\ ret.read.val.witness.some
    /\ Len(ret.read.val.inputs) = 2

\* the transaction was serialized with a count above the cap: the field
\* count of its first witness stack is 2^63
CountAboveCap(t) == t = WitnessOverflowTx

\* C26: a block or transaction with a count (tx_count, in_count, out_count,
\* the count of a witness stack) above the sanity cap of 1,000,000 is
\* rejected with an error and no collection is allocated with a capacity
\* above the cap: on a transaction serialized with such a count
\* read_transaction returns Err; it neither decodes the transaction nor
\* panics in an allocation sized by the count.
C26_CountsCapped ==
    (TxRead /\ CountAboveCap(arg.tx) /\ Len(arg.bytes) = Len(TxRaw(arg.tx))) =>
        ret.read.st = "Err"

\* ------------------------------------------------------------------------
\* Shutdown of the reader stage (SpecRead)
\* ------------------------------------------------------------------------

\* C27: when the Receiver of the channel is dropped while process_file
\* still holds a block to send, process_file stops sending and returns: it
\* does not end in a panic with the block unsent.
C27_CooperativeShutdown ==
    ~(/\ stage = "processing" /\ pc = "done"
      /\ ~rxOpen /\ cur # NoItem
      /\ result = "Panic")

====
